---- MODULE Spec2Model ----
(***************************************************************************)
(* A model of the merge / error-handler resolution / layout / edge         *)
(* pipeline of the workflow visualizer:                                    *)
(*   combineWorkflowData(definition, execution?)  -> CombinedWorkflowData  *)
(*   parseCombinedWorkflowData(combinedData)      -> { nodes, edges }      *)
(* The recursion of layoutStates is unrolled over an explicit call stack,  *)
(* one invocation per step.                                                *)
(* Beside it: the older variant of parseCombinedWorkflowData, run on the   *)
(* same combined data; FileSelector, whose load requests complete          *)
(* asynchronously; and repeated runs of the pipeline, one per file load.   *)
(***************************************************************************)
EXTENDS Integers, Sequences, FiniteSets, TLC

VARIABLES
    definition,      \* WorkflowDefinition handed to combineWorkflowData
    execution,       \* optional WorkflowDebugData handed to combineWorkflowData
    combinedData,    \* optional CombinedWorkflowData (result of the merge)
    visited,         \* the Set<string> threaded through layoutStates
    statePositions,  \* Map<string, {x, y}> of parseCombinedWorkflowData
    callStack,       \* pending layoutStates invocations, innermost first
    positionSets,    \* history: number of statePositions.set calls per name
    layoutStatesCalls, \* history: number of invocations of layoutStates
    nodes,           \* nodes array of parseCombinedWorkflowData
    edges,           \* edges array of parseCombinedWorkflowData
    triggeredHandlers, \* per state, the triggeredErrorHandler of the edge loop
    pc,              \* position in the pipeline
    legacyNodes,     \* nodes array of the older parseCombinedWorkflowData
    legacyEdges,     \* edges array of the older parseCombinedWorkflowData
    firstResults,    \* history: per input, what its first run returned
    mode,            \* FileSelector: useState 'combined' | 'debug-only'
    isLoading,       \* FileSelector: useState(false)
    selectorError,   \* FileSelector: error of useState(''), as message parts
    selectedWorkflow,  \* FileSelector: useState('')
    selectedExecution, \* FileSelector: useState('')
    requests,        \* FileSelector: the load requests started so far
    workflowData,    \* App: what handleDataLoad stored last
    currentFile,     \* App: the file name handleDataLoad stored last
    combineCalls,    \* history: the calls of combineWorkflowData by a request
    onDataLoadCalls  \* history: the calls of onDataLoad

vars == <<definition, execution, combinedData, visited, statePositions,
          callStack, positionSets, layoutStatesCalls, nodes, edges,
          triggeredHandlers, pc,
          legacyNodes, legacyEdges, firstResults, mode, isLoading,
          selectorError,
          selectedWorkflow, selectedExecution, requests, workflowData,
          currentFile, combineCalls, onDataLoadCalls>>

\* the state of FileSelector and of App
selectorVars == <<mode, isLoading, selectorError, selectedWorkflow,
                  selectedExecution,
                  requests, workflowData, currentFile, combineCalls,
                  onDataLoadCalls>>

\* the state of one run of the merge and the parser
pipelineVars == <<definition, execution, combinedData, visited, statePositions,
                  callStack, positionSets, layoutStatesCalls, nodes, edges,
          triggeredHandlers, pc,
                  legacyNodes, legacyEdges>>

\* what the steps of the newer parser leave alone
legacyVars == <<legacyNodes, legacyEdges>>

-----------------------------------------------------------------------------
(* Optional values (a field that may be undefined): the empty sequence is  *)
(* undefined, a one-element sequence carries the value.                    *)

None == <<>>

Some(x) == <<x>>

IsDefined(o) == o # <<>>

Val(o) == o[1]

-----------------------------------------------------------------------------
(* Strings.  A string is a TLA+ string; its characters are given by Chars, *)
(* so that toLowerCase and includes are computed character by character.   *)

Chars(s) ==
    CASE s = ""        -> <<>>
      [] s = "io"      -> <<"i", "o">>
      [] s = "IO"      -> <<"I", "O">>
      [] s = "net"     -> <<"n", "e", "t">>
      [] s = "IO net"  -> <<"I", "O", " ", "n", "e", "t">>
      [] s = "Net"     -> <<"N", "e", "t">>
      [] s = "disk"    -> <<"d", "i", "s", "k">>
      [] s = "DefaultErrorRef" ->
            <<"D", "e", "f", "a", "u", "l", "t",
              "E", "r", "r", "o", "r", "R", "e", "f">>

LowerChar(c) ==
    CASE c = "D" -> "d"
      [] c = "E" -> "e"
      [] c = "I" -> "i"
      [] c = "N" -> "n"
      [] c = "O" -> "o"
      [] c = "R" -> "r"
      [] OTHER   -> c

\* String.prototype.toLowerCase
toLowerCase(cs) == [i \in DOMAIN cs |-> LowerChar(cs[i])]

\* String.prototype.includes
includes(hay, needle) ==
    \E i \in 0..(Len(hay) - Len(needle)) :
        SubSeq(hay, i + 1, i + Len(needle)) = needle

\* JavaScript truthiness of an optional string: defined and not empty
Truthy(o) == IsDefined(o) /\ Val(o) # ""

\* new Date(s).getTime() for the timestamps of the traces
DateGetTime(s) ==
    CASE s = "1970-01-01T00:00:00.100Z" -> 100
      [] s = "1970-01-01T00:00:00.350Z" -> 350
      [] s = "1970-01-01T00:00:01.000Z" -> 1000

-----------------------------------------------------------------------------
(* combineWorkflowData                                                     *)

\* Map.prototype.set
MapSet(m, k, v) == [x \in (DOMAIN m) \cup {k} |-> IF x = k THEN v ELSE m[x]]

\* states.forEach(state => map.set(state.name, state)), from index i on
RECURSIVE SetAllByName(_, _, _)
SetAllByName(m, states, i) ==
    IF i > Len(states)
    THEN m
    ELSE SetAllByName(MapSet(m, states[i].name, states[i]), states, i + 1)

\* a variant that stops one record short of the end of the trace
executionMapOf_DropLast(exec) ==
    IF IsDefined(exec)
    THEN SetAllByName(<<>>, SubSeq(Val(exec).states, 1, Len(Val(exec).states) - 1), 1)
    ELSE <<>>

\* a variant in which the first record of a name wins
executionMapOf_FirstWins(exec) ==
    IF IsDefined(exec)
    THEN LET q == Val(exec).states
         IN  SetAllByName(<<>>, [i \in DOMAIN q |-> q[Len(q) + 1 - i]], 1)
    ELSE <<>>

\* the executionMap of combineWorkflowData
executionMapOf(exec) ==
    IF IsDefined(exec)
    THEN SetAllByName(<<>>, Val(exec).states, 1)
    ELSE <<>>

\* executionState.actions?.some(action => action.error)
SomeActionError(rec) ==
    /\ IsDefined(rec.actions)
    /\ \E i \in DOMAIN Val(rec.actions) : Truthy(Val(rec.actions)[i].error)

\* a variant that looks at the state-level error only
RecordHasError_StateOnly(rec) == Truthy(rec.error)

\* !!(executionState.error || executionState.actions?.some(...))
RecordHasError(rec) == Truthy(rec.error) \/ SomeActionError(rec)

CombineDuration(wasExecuted, executionState) ==
    IF /\ wasExecuted
       /\ Val(executionState).startTime # ""
       /\ Val(executionState).endTime # ""
    THEN DateGetTime(Val(executionState).endTime)
            - DateGetTime(Val(executionState).startTime)
    ELSE 0

CombineHasError(wasExecuted, executionState) ==
    IF wasExecuted THEN RecordHasError(Val(executionState)) ELSE FALSE

\* the callback of definition.states.map
CombineState(defState, executionMap) ==
    LET executionState ==
            IF defState.name \in DOMAIN executionMap
            THEN Some(executionMap[defState.name])
            ELSE None
        wasExecuted == IsDefined(executionState)
    IN  [ name        |-> defState.name,
          type        |-> defState.type,
          definition  |-> defState,
          execution   |-> executionState,
          wasExecuted |-> wasExecuted,
          hasError    |-> CombineHasError(wasExecuted, executionState),
          duration    |-> CombineDuration(wasExecuted, executionState) ]

\* a variant that keeps only the states the trace names
combineWorkflowData_ExecutedOnly(def, exec) ==
    LET executionMap == executionMapOf(exec)
        Ran(defState) == defState.name \in DOMAIN executionMap
        ran == SelectSeq(def.states, Ran)
    IN  [ definition |-> def,
          execution  |-> exec,
          states     |-> [i \in DOMAIN ran |-> CombineState(ran[i], executionMap)],
          startState |-> def.start ]

combineWorkflowData(def, exec) ==
    LET executionMap == executionMapOf(exec)
    IN  [ definition |-> def,
          execution  |-> exec,
          states     |-> [i \in DOMAIN def.states |->
                             CombineState(def.states[i], executionMap)],
          startState |-> def.start ]

-----------------------------------------------------------------------------
(* Error-handler resolution                                                *)

matchesErrorRef(errorMessage, errorRef) ==
    IF errorMessage = "" \/ errorRef = ""
    THEN FALSE
    ELSE includes(toLowerCase(Chars(errorMessage)), toLowerCase(Chars(errorRef)))

\* A transition is either a bare string or an object { nextState }; form
\* records which, nextState holds the name in both cases.
getErrorHandlerNextState(errorHandler) ==
    IF errorHandler.transition.form = "string"
    THEN errorHandler.transition.nextState
    ELSE errorHandler.transition.nextState

\* Array.prototype.find and the for loop with return: of the indices whose
\* element satisfies the test, the first; 0 if there is none
FirstIndex(matching) ==
    IF matching = {} THEN 0
    ELSE CHOOSE i \in matching : \A j \in matching : i <= j

\* a variant that looks at the actions before the state-level error
EffectiveErrorMessage_ActionsFirst(rec) ==
    LET actions == IF IsDefined(rec.actions) THEN Val(rec.actions) ELSE <<>>
        k == FirstIndex({ i \in DOMAIN actions : Truthy(actions[i].error) })
    IN  IF k # 0 THEN actions[k].error
        ELSE IF Truthy(rec.error) THEN rec.error ELSE None

\* state.execution.error || state.execution.actions?.find(a => a.error)?.error
EffectiveErrorMessage(rec) ==
    IF Truthy(rec.error)
    THEN rec.error
    ELSE IF IsDefined(rec.actions)
         THEN LET actions == Val(rec.actions)
                  k == FirstIndex({ i \in DOMAIN actions : Truthy(actions[i].error) })
              IN  IF k = 0 THEN None ELSE actions[k].error
         ELSE None

\* a variant in which the last matching handler wins
SpecificHandlerIndex_Last(onErrors, errorMessage) ==
    LET matching == { i \in DOMAIN onErrors :
                        /\ onErrors[i].errorRef # "DefaultErrorRef"
                        /\ matchesErrorRef(errorMessage, onErrors[i].errorRef) }
    IN  IF matching = {} THEN 0
        ELSE CHOOSE i \in matching : \A j \in matching : j <= i

\* a variant with one pass, in which DefaultErrorRef matches where it stands
SpecificHandlerIndex_DefaultInline(onErrors, errorMessage) ==
    FirstIndex({ i \in DOMAIN onErrors :
                    \/ onErrors[i].errorRef = "DefaultErrorRef"
                    \/ matchesErrorRef(errorMessage, onErrors[i].errorRef) })

\* the first loop: non-DefaultErrorRef handlers, in declared order
SpecificHandlerIndex(onErrors, errorMessage) ==
    FirstIndex({ i \in DOMAIN onErrors :
                    /\ onErrors[i].errorRef # "DefaultErrorRef"
                    /\ matchesErrorRef(errorMessage, onErrors[i].errorRef) })

\* a variant that honours the DefaultErrorRef handler only when it is
\* declared first
DefaultHandlerIndex_FirstOnly(onErrors) ==
    IF onErrors # <<>> /\ onErrors[1].errorRef = "DefaultErrorRef" THEN 1 ELSE 0

\* onErrors.find(handler => handler.errorRef === 'DefaultErrorRef')
DefaultHandlerIndex(onErrors) ==
    FirstIndex({ i \in DOMAIN onErrors : onErrors[i].errorRef = "DefaultErrorRef" })

Resolution(errorHandler) ==
    Some([ errorHandler |-> errorHandler,
           nextState    |-> getErrorHandlerNextState(errorHandler) ])

\* a variant that falls back to the DefaultErrorRef handler of every executed
\* state, with or without an error
findTriggeredErrorHandler_WithoutError(state) ==
    IF ~state.wasExecuted \/ ~IsDefined(state.definition.onErrors)
    THEN None
    ELSE LET errorMessage == EffectiveErrorMessage(Val(state.execution))
             onErrors     == Val(state.definition.onErrors)
             s == IF Truthy(errorMessage)
                  THEN SpecificHandlerIndex(onErrors, Val(errorMessage)) ELSE 0
             d == DefaultHandlerIndex(onErrors)
         IN  IF s # 0 THEN Resolution(onErrors[s])
             ELSE IF d # 0 THEN Resolution(onErrors[d])
             ELSE None

findTriggeredErrorHandler(state) ==
    IF ~state.hasError \/ ~IsDefined(state.definition.onErrors)
          \/ ~IsDefined(state.execution)
    THEN None
    ELSE LET errorMessage == EffectiveErrorMessage(Val(state.execution))
             onErrors     == Val(state.definition.onErrors)
         IN  IF ~Truthy(errorMessage)
             THEN None
             ELSE LET s == SpecificHandlerIndex(onErrors, Val(errorMessage))
                      d == DefaultHandlerIndex(onErrors)
                  IN  IF s # 0 THEN Resolution(onErrors[s])
                      ELSE IF d # 0 THEN Resolution(onErrors[d])
                      ELSE None

-----------------------------------------------------------------------------
(* Layout                                                                  *)

\* a variant that follows the transition of a state whatever its end flag
getNextStateName_IgnoringEnd(defState) ==
    IF ~IsDefined(defState.transition)
    THEN None
    ELSE IF Val(defState.transition).nextState = ""
         THEN None
         ELSE Some(Val(defState.transition).nextState)

getNextStateName(defState) ==
    IF ~IsDefined(defState.transition) \/ defState.end
    THEN None
    ELSE IF Val(defState.transition).form = "string"
         THEN IF Val(defState.transition).nextState = ""
              THEN None
              ELSE Some(Val(defState.transition).nextState)
         ELSE IF Val(defState.transition).nextState # ""
              THEN Some(Val(defState.transition).nextState)
              ELSE None

\* the stateMap of parseCombinedWorkflowData
stateMapOf(cd) == SetAllByName(<<>>, cd.states, 1)

Frame(stateName, level, position) ==
    [ stateName |-> stateName, level |-> level, position |-> position ]

\* a variant that lays the default target out in the lane of the switch
SwitchCalls_DefaultInParentLane(def, level, position) ==
    LET conds == IF IsDefined(def.dataConditions)
                 THEN Val(def.dataConditions) ELSE <<>>
        condCalls == [i \in DOMAIN conds |->
                        Frame(conds[i].transition.nextState, level + 1,
                              position + (i - 1))]
    IN  IF IsDefined(def.defaultCondition)
        THEN Append(condCalls,
                    Frame(Val(def.defaultCondition).transition.nextState,
                          level + 1, position))
        ELSE condCalls

\* the recursive calls made by a switch state, in call order
SwitchCalls(def, level, position) ==
    LET conds == IF IsDefined(def.dataConditions)
                 THEN Val(def.dataConditions) ELSE <<>>
        condCalls == [i \in DOMAIN conds |->
                        Frame(conds[i].transition.nextState, level + 1,
                              position + (i - 1))]
        nextPosition == Len(conds)
    IN  IF IsDefined(def.defaultCondition)
        THEN Append(condCalls,
                    Frame(Val(def.defaultCondition).transition.nextState,
                          level + 1, position + nextPosition))
        ELSE condCalls

\* the recursive calls made by any other state, in call order
RegularCalls(def, level, position) ==
    LET nextState == getNextStateName(def)
        normal == IF IsDefined(nextState)
                  THEN <<Frame(Val(nextState), level + 1, position + 0)>>
                  ELSE <<>>
        nextPosition == Len(normal)
        onErrors == IF IsDefined(def.onErrors) THEN Val(def.onErrors) ELSE <<>>
        errorCalls == [i \in DOMAIN onErrors |->
                         Frame(getErrorHandlerNextState(onErrors[i]), level + 1,
                               position + nextPosition + (i - 1))]
    IN  normal \o errorCalls

LayoutCalls(state, level, position) ==
    IF state.definition.type = "switch"
    THEN SwitchCalls(state.definition, level, position)
    ELSE RegularCalls(state.definition, level, position)

\* const x = level * 400; const y = position * 250
LayoutPosition(level, position) == [ x |-> level * 400, y |-> position * 250 ]

\* a variant without the visited test
LayoutSkips_NoVisited(stateName, vis, stateMap) ==
    stateName \notin DOMAIN stateMap

\* if (visited.has(stateName) || !stateMap.has(stateName)) return
LayoutSkips(stateName, vis, stateMap) ==
    stateName \in vis \/ stateName \notin DOMAIN stateMap

-----------------------------------------------------------------------------
(* Nodes                                                                   *)

\* a variant whose fallback is the origin
NodePosition_Origin(positions, name, index) ==
    IF name \in DOMAIN positions
    THEN positions[name]
    ELSE [ x |-> 0, y |-> 0 ]

\* statePositions.get(state.name) || { x: index * 400, y: 0 }  (index from 0)
NodePosition(positions, name, index) ==
    IF name \in DOMAIN positions
    THEN positions[name]
    ELSE [ x |-> index * 400, y |-> 0 ]

CreateNode(state, index, positions) ==
    [ id        |-> <<"state-", state.name>>,
      position  |-> NodePosition(positions, state.name, index),
      label     |-> state.name,
      duration  |-> state.duration,
      hasError  |-> state.hasError,
      wasExecuted |-> state.wasExecuted,
      className |-> IF state.wasExecuted THEN "executed-node"
                                         ELSE "unexecuted-node" ]

\* a variant that emits a node only for the states the layout positioned
CreateNodes_PositionedOnly(cd, positions) ==
    LET Positioned(state) == state.name \in DOMAIN positions
        kept == SelectSeq(cd.states, Positioned)
    IN  [i \in DOMAIN kept |-> CreateNode(kept[i], i - 1, positions)]

CreateNodes(cd, positions) ==
    [i \in DOMAIN cd.states |-> CreateNode(cd.states[i], i - 1, positions)]

-----------------------------------------------------------------------------
(* Edges                                                                   *)

StateId(name) == <<"state-", name>>

\* a variant that highlights every condition of an executed switch
ConditionEdge_AnyExecuted(state, condition) ==
    LET isExecutedPath == state.wasExecuted
    IN  [ id     |-> <<"edge-", state.name, "-", condition.name>>,
          source |-> StateId(state.name),
          target |-> StateId(condition.transition.nextState),
          label  |-> Some(<<condition.name>>),
          animated |-> isExecutedPath,
          stroke |-> IF isExecutedPath THEN "#f59e0b" ELSE "#d1d5db",
          strokeWidth |-> IF isExecutedPath THEN 2 ELSE 1,
          strokeDasharray |-> IF ~isExecutedPath THEN Some("5,5") ELSE None ]

\* one edge per dataCondition
ConditionEdge(state, condition) ==
    LET isExecutedPath ==
            /\ state.wasExecuted
            /\ IsDefined(state.execution)
            /\ Val(state.execution).matchedCondition = Some(condition.name)
    IN  [ id     |-> <<"edge-", state.name, "-", condition.name>>,
          source |-> StateId(state.name),
          target |-> StateId(condition.transition.nextState),
          label  |-> Some(<<condition.name>>),
          animated |-> isExecutedPath,
          stroke |-> IF isExecutedPath THEN "#f59e0b" ELSE "#d1d5db",
          strokeWidth |-> IF isExecutedPath THEN 2 ELSE 1,
          strokeDasharray |-> IF ~isExecutedPath THEN Some("5,5") ELSE None ]

\* the edge of the defaultCondition
DefaultEdge(state) ==
    LET isExecutedPath ==
            /\ state.wasExecuted
            /\ IsDefined(state.execution)
            /\ Val(state.execution).matchedCondition = Some("default")
    IN  [ id     |-> <<"edge-", state.name, "-default">>,
          source |-> StateId(state.name),
          target |-> StateId(Val(state.definition.defaultCondition)
                                .transition.nextState),
          label  |-> Some(<<"default">>),
          animated |-> isExecutedPath,
          stroke |-> IF isExecutedPath THEN "#f59e0b" ELSE "#d1d5db",
          strokeWidth |-> IF isExecutedPath THEN 2 ELSE 1,
          strokeDasharray |-> IF ~isExecutedPath THEN Some("5,5") ELSE None ]

\* a variant that draws the default edge only when no condition was matched
SwitchEdges_DefaultWhenUnmatched(state) ==
    LET conds == IF IsDefined(state.definition.dataConditions)
                 THEN Val(state.definition.dataConditions) ELSE <<>>
        condEdges == [i \in DOMAIN conds |-> ConditionEdge(state, conds[i])]
        matched == \E i \in DOMAIN condEdges : condEdges[i].animated
    IN  IF IsDefined(state.definition.defaultCondition) /\ ~matched
        THEN Append(condEdges, DefaultEdge(state))
        ELSE condEdges

SwitchEdges(state) ==
    LET conds == IF IsDefined(state.definition.dataConditions)
                 THEN Val(state.definition.dataConditions) ELSE <<>>
        condEdges == [i \in DOMAIN conds |-> ConditionEdge(state, conds[i])]
    IN  IF IsDefined(state.definition.defaultCondition)
        THEN Append(condEdges, DefaultEdge(state))
        ELSE condEdges

\* a variant that draws the normal transition of every executed state as taken
NormalEdge_IgnoringError(state, nextStateName) ==
    LET isExecutedPath == state.wasExecuted
    IN  [ id     |-> <<"edge-", state.name, "-", nextStateName>>,
          source |-> StateId(state.name),
          target |-> StateId(nextStateName),
          label  |-> None,
          animated |-> isExecutedPath,
          stroke |-> IF ~state.wasExecuted THEN "#d1d5db" ELSE "#10b981",
          strokeWidth |-> IF isExecutedPath THEN 2 ELSE 1,
          strokeDasharray |-> IF ~isExecutedPath THEN Some("5,5") ELSE None ]

\* the edge of the normal transition
NormalEdge(state, nextStateName) ==
    LET isExecutedPath == state.wasExecuted /\ ~state.hasError
    IN  [ id     |-> <<"edge-", state.name, "-", nextStateName>>,
          source |-> StateId(state.name),
          target |-> StateId(nextStateName),
          label  |-> None,
          animated |-> isExecutedPath,
          stroke |-> IF state.hasError THEN "#d1d5db"
                     ELSE IF ~state.wasExecuted THEN "#d1d5db"
                     ELSE "#10b981",
          strokeWidth |-> IF isExecutedPath THEN 2 ELSE 1,
          strokeDasharray |-> IF ~isExecutedPath THEN Some("5,5") ELSE None ]

\* the edge to the handler that was triggered
TriggeredEdge(state, triggered) ==
    [ id     |-> <<"edge-", state.name, "-error-", triggered.errorHandler.errorRef>>,
      source |-> StateId(state.name),
      target |-> StateId(triggered.nextState),
      label  |-> Some(<<"error: ", triggered.errorHandler.errorRef>>),
      animated |-> TRUE,
      stroke |-> "#ef4444",
      strokeWidth |-> 2,
      strokeDasharray |-> Some("3,3") ]

\* the edge of a handler that was not triggered
UnexecutedErrorEdge(state, errorHandler) ==
    [ id     |-> <<"edge-", state.name, "-error-unexecuted-", errorHandler.errorRef>>,
      source |-> StateId(state.name),
      target |-> StateId(getErrorHandlerNextState(errorHandler)),
      label  |-> Some(<<"error: ", errorHandler.errorRef>>),
      animated |-> FALSE,
      stroke |-> "#d1d5db",
      strokeWidth |-> 1,
      strokeDasharray |-> Some("5,5") ]

\* the handlers that get an unexecuted edge beside the triggered one
OtherHandlers(onErrors, triggered) ==
    LET Other(h) == h.errorRef # triggered.errorHandler.errorRef
    IN  SelectSeq(onErrors, Other)

ErrorEdges(state, triggeredErrorHandler) ==
    LET onErrors == IF IsDefined(state.definition.onErrors)
                    THEN Val(state.definition.onErrors) ELSE <<>>
    IN  IF IsDefined(triggeredErrorHandler)
        THEN LET others == OtherHandlers(onErrors, Val(triggeredErrorHandler))
             IN  <<TriggeredEdge(state, Val(triggeredErrorHandler))>>
                 \o [i \in DOMAIN others |-> UnexecutedErrorEdge(state, others[i])]
        ELSE [i \in DOMAIN onErrors |-> UnexecutedErrorEdge(state, onErrors[i])]

RegularEdges(state) ==
    LET triggeredErrorHandler == findTriggeredErrorHandler(state)
        nextStateName == getNextStateName(state.definition)
        normal == IF IsDefined(nextStateName)
                  THEN <<NormalEdge(state, Val(nextStateName))>>
                  ELSE <<>>
    IN  normal \o ErrorEdges(state, triggeredErrorHandler)

StateEdges(state) ==
    IF state.definition.type = "switch"
    THEN SwitchEdges(state)
    ELSE RegularEdges(state)

\* const triggeredErrorHandler = findTriggeredErrorHandler(state), which the
\* edge loop computes for every state that is not a switch
TriggeredHandlers(states) ==
    [i \in DOMAIN states |->
        IF states[i].definition.type = "switch"
        THEN None
        ELSE findTriggeredErrorHandler(states[i])]

\* combinedData.states.forEach(state => { ... edges.push(edge) ... })
RECURSIVE CreateEdges(_, _)
CreateEdges(states, i) ==
    IF i > Len(states)
    THEN <<>>
    ELSE StateEdges(states[i]) \o CreateEdges(states, i + 1)

-----------------------------------------------------------------------------
(* The older variant of parseCombinedWorkflowData (utils/workflowParser.ts): *)
(* no error-handler edges, and another test for the default branch.         *)

\* the recursive calls of the older layoutStates: the conditions and the
\* default of a switch, else the normal transition at the caller's position
LegacyLayoutCalls(state, level, position) ==
    IF state.definition.type = "switch"
    THEN SwitchCalls(state.definition, level, position)
    ELSE LET nextState == getNextStateName(state.definition)
         IN  IF IsDefined(nextState)
             THEN <<Frame(Val(nextState), level + 1, position)>>
             ELSE <<>>

\* layoutStates run to completion over the pending calls, innermost first
RECURSIVE LegacyLayoutStates(_, _, _, _)
LegacyLayoutStates(calls, vis, positions, stateMap) ==
    IF calls = <<>>
    THEN positions
    ELSE LET call == Head(calls)
         IN  IF LayoutSkips(call.stateName, vis, stateMap)
             THEN LegacyLayoutStates(Tail(calls), vis, positions, stateMap)
             ELSE LegacyLayoutStates(
                     LegacyLayoutCalls(stateMap[call.stateName], call.level,
                                       call.position) \o Tail(calls),
                     vis \cup {call.stateName},
                     MapSet(positions, call.stateName,
                            LayoutPosition(call.level, call.position)),
                     stateMap)

LegacyConditionEdge(state, condition) ==
    LET isExecutedPath ==
            /\ state.wasExecuted
            /\ IsDefined(state.execution)
            /\ Val(state.execution).matchedCondition = Some(condition.name)
    IN  [ id     |-> <<"edge-", state.name, "-", condition.name>>,
          source |-> StateId(state.name),
          target |-> StateId(condition.transition.nextState),
          label  |-> Some(<<condition.name>>),
          animated |-> isExecutedPath,
          stroke |-> IF isExecutedPath THEN "#f59e0b" ELSE "#d1d5db",
          strokeWidth |-> IF isExecutedPath THEN 3 ELSE 1,
          strokeDasharray |-> IF ~isExecutedPath THEN Some("5,5") ELSE None ]

\* a variant of the older default edge that accepts the literal marker too
LegacyDefaultEdge_AcceptingLiteral(state) ==
    LET isExecutedPath ==
            /\ state.wasExecuted
            /\ \/ ~Truthy(Val(state.execution).matchedCondition)
               \/ Val(state.execution).matchedCondition = Some("default")
    IN  [ id     |-> <<"edge-", state.name, "-default">>,
          source |-> StateId(state.name),
          target |-> StateId(Val(state.definition.defaultCondition)
                                .transition.nextState),
          label  |-> Some(<<"default">>),
          animated |-> isExecutedPath,
          stroke |-> IF isExecutedPath THEN "#f59e0b" ELSE "#d1d5db",
          strokeWidth |-> IF isExecutedPath THEN 3 ELSE 1,
          strokeDasharray |-> IF ~isExecutedPath THEN Some("5,5") ELSE None ]

\* state.wasExecuted && !state.execution?.matchedCondition: the marker is
\* absent or the empty string
LegacyDefaultEdge(state) ==
    LET isExecutedPath ==
            /\ state.wasExecuted
            /\ ~(IsDefined(state.execution)
                  /\ Truthy(Val(state.execution).matchedCondition))
    IN  [ id     |-> <<"edge-", state.name, "-default">>,
          source |-> StateId(state.name),
          target |-> StateId(Val(state.definition.defaultCondition)
                                .transition.nextState),
          label  |-> Some(<<"default">>),
          animated |-> isExecutedPath,
          stroke |-> IF isExecutedPath THEN "#f59e0b" ELSE "#d1d5db",
          strokeWidth |-> IF isExecutedPath THEN 3 ELSE 1,
          strokeDasharray |-> IF ~isExecutedPath THEN Some("5,5") ELSE None ]

LegacySwitchEdges(state) ==
    LET conds == IF IsDefined(state.definition.dataConditions)
                 THEN Val(state.definition.dataConditions) ELSE <<>>
        condEdges == [i \in DOMAIN conds |-> LegacyConditionEdge(state, conds[i])]
    IN  IF IsDefined(state.definition.defaultCondition)
        THEN Append(condEdges, LegacyDefaultEdge(state))
        ELSE condEdges

LegacyNormalEdge(state, nextStateName) ==
    LET isExecutedPath == state.wasExecuted
    IN  [ id     |-> <<"edge-", state.name, "-", nextStateName>>,
          source |-> StateId(state.name),
          target |-> StateId(nextStateName),
          label  |-> None,
          animated |-> isExecutedPath /\ ~state.hasError,
          stroke |-> IF state.hasError THEN "#ef4444"
                     ELSE IF ~isExecutedPath THEN "#d1d5db"
                     ELSE "#10b981",
          strokeWidth |-> IF isExecutedPath THEN 2 ELSE 1,
          strokeDasharray |-> IF ~isExecutedPath \/ state.hasError
                              THEN Some("5,5") ELSE None ]

LegacyStateEdges(state) ==
    IF state.definition.type = "switch"
    THEN LegacySwitchEdges(state)
    ELSE LET nextStateName == getNextStateName(state.definition)
         IN  IF IsDefined(nextStateName)
             THEN <<LegacyNormalEdge(state, Val(nextStateName))>>
             ELSE <<>>

RECURSIVE LegacyCreateEdges(_, _)
LegacyCreateEdges(states, i) ==
    IF i > Len(states)
    THEN <<>>
    ELSE LegacyStateEdges(states[i]) \o LegacyCreateEdges(states, i + 1)

\* the older parseCombinedWorkflowData as a whole
LegacyParseCombinedWorkflowData(cd) ==
    LET positions ==
            LegacyLayoutStates(<<Frame(cd.startState, 0, 0)>>, {}, <<>>,
                               stateMapOf(cd))
    IN  [ nodes |-> CreateNodes(cd, positions),
          edges |-> LegacyCreateEdges(cd.states, 1) ]

-----------------------------------------------------------------------------
(* Inputs                                                                  *)

MaxStates == 2      \* states of a definition of the merge inputs

MaxTrace == 2       \* records of a trace

MaxHandlers == 2    \* declared error handlers of a state

MaxGraph == 5       \* states of a definition of the layout inputs

MaxConditions == 2  \* dataConditions of a switch of the switch inputs

\* declared state names, in declaration order; "Z" is never declared
Roster == <<"A", "B", "C", "D", "E", "F", "G">>

NameAt(k, n) == IF k <= n THEN Roster[k] ELSE "Z"

ObjectTransition(nextState) == [ form |-> "object", nextState |-> nextState ]

StringTransition(nextState) == [ form |-> "string", nextState |-> nextState ]

DefState(name, type, transition, end, dataConditions, defaultCondition, onErrors) ==
    [ name |-> name, type |-> type, transition |-> transition, end |-> end,
      dataConditions |-> dataConditions, defaultCondition |-> defaultCondition,
      onErrors |-> onErrors ]

Condition(name, nextState) ==
    [ name |-> name, transition |-> [ nextState |-> nextState ] ]

Handler(errorRef, transition) == [ errorRef |-> errorRef, transition |-> transition ]

Definition(start, states) == [ start |-> start, states |-> states ]

ExecutionRecord(name, startTime, endTime, error, actions, matchedCondition) ==
    [ name |-> name, startTime |-> startTime, endTime |-> endTime,
      error |-> error, actions |-> actions,
      matchedCondition |-> matchedCondition ]

Action(error) == [ error |-> error ]

\* all sequences over S of length 0..n
RECURSIVE SeqsUpTo(_, _)
SeqsUpTo(S, n) ==
    IF n = 0 THEN { <<>> }
    ELSE LET shorter == SeqsUpTo(S, n - 1)
         IN  shorter \cup { Append(q, x) : q \in shorter, x \in S }

T1 == "1970-01-01T00:00:00.100Z"

T2 == "1970-01-01T00:00:00.350Z"

T3 == "1970-01-01T00:00:01.000Z"

\* what a trace records of one state, by kind of outcome
RecordVariants(name) ==
    { ExecutionRecord(name, T1, T2, None, None, None),
      ExecutionRecord(name, T1, T3, Some("IO net"), None, None),
      ExecutionRecord(name, T2, T3, None,
                      Some(<<Action(None), Action(Some("disk"))>>), None),
      ExecutionRecord(name, "", "", Some(""), Some(<<Action(None)>>), None),
      ExecutionRecord(name, T1, "", None, Some(<<>>), Some("default")) }

\* --- merge inputs: a loop of 1..MaxStates states, the first maybe a switch

LoopState(k, n, type) ==
    DefState(Roster[k], type,
             Some(ObjectTransition(IF k = n THEN Roster[1] ELSE Roster[k + 1])),
             FALSE,
             IF type = "switch"
             THEN Some(<<Condition("big", NameAt(k + 1, n))>>) ELSE None,
             IF type = "switch"
             THEN Some([ transition |-> [ nextState |-> Roster[1] ] ]) ELSE None,
             None)

MergeDefinitions ==
    { Definition("A", [k \in 1..n |->
                         LoopState(k, n, IF k = 1 THEN t ELSE "operation")]) :
        n \in 1..MaxStates, t \in {"operation", "switch", "inject"} }

MergeRecords == UNION { RecordVariants(name) : name \in {"A", "B", "Z"} }

MergeTraces ==
    { None } \cup { Some([ states |-> q ]) : q \in SeqsUpTo(MergeRecords, MaxTrace) }

\* --- resolver inputs: one state A with error handlers, B and C its targets

ErrorRefs == { "", "io", "Net", "DefaultErrorRef" }

Handlers ==
    { Handler(ref, ObjectTransition("B")) : ref \in ErrorRefs }
        \cup { Handler(ref, StringTransition("C")) : ref \in ErrorRefs }

EndState(name) ==
    DefState(name, "operation", None, TRUE, None, None, None)

ResolverDefinitions ==
    { Definition("A",
        << DefState("A", "operation", tr, en, None, None, oe),
           EndState("B"), EndState("C") >>) :
        tr \in { None, Some(ObjectTransition("B")) },
        en \in BOOLEAN,
        oe \in { None } \cup { Some(q) : q \in SeqsUpTo(Handlers, MaxHandlers) } }

ResolverRecords ==
    { ExecutionRecord("A", T1, T2, e, a, None) :
        e \in { None, Some("IO net"), Some("disk") },
        a \in { None,
                Some(<<Action(None), Action(Some("net")), Action(Some("disk"))>>) } }

\* a trace records A alone, or A and then both of its targets
ResolverTraces ==
    { None } \cup { Some([ states |-> <<r>> ]) : r \in ResolverRecords }
        \cup { Some([ states |->
                        << r, ExecutionRecord("B", T2, T3, None, None, None),
                           ExecutionRecord("C", T2, T3, None, None, None) >> ]) :
                 r \in ResolverRecords }

\* --- switch inputs: a switch A with up to MaxConditions conditions (names
\* may repeat) and maybe a default, B and C its targets; the trace records A
\* with any marker, or does not record it

SwitchConditions ==
    { Condition(name, target) : name \in {"big", "small"}, target \in {"B", "C"} }

SwitchDefinitions ==
    { Definition("A",
        << DefState("A", "switch", None, FALSE, dc, df, None),
           EndState("B"), EndState("C") >>) :
        dc \in { None } \cup
               { Some(q) : q \in SeqsUpTo(SwitchConditions, MaxConditions) },
        df \in { None, Some([ transition |-> [ nextState |-> "B" ] ]),
                 Some([ transition |-> [ nextState |-> "A" ] ]) } }

SwitchRecords ==
    { ExecutionRecord(name, T1, T2, e, None, mc) :
        name \in {"A", "B"},
        e \in { None, Some("IO net") },
        mc \in { None, Some(""), Some("big"), Some("small"), Some("default") } }

SwitchTraces ==
    { None } \cup { Some([ states |-> <<r>> ]) : r \in SwitchRecords }

\* --- layout inputs: graphs of 1..MaxGraph states; state k chooses among
\* four shapes whose targets are the next two states, the first state or
\* itself (a target beyond the last declared state is undeclared)

Shapes(k, n) ==
    { \* a final state: end = true hides its transition
      DefState(Roster[k], "operation",
               Some(ObjectTransition(NameAt(k + 1, n))), TRUE, None, None, None),
      \* normal transition to the next state, one handler to the one after
      DefState(Roster[k], "operation",
               Some(ObjectTransition(NameAt(k + 1, n))), FALSE, None, None,
               Some(<<Handler("io", ObjectTransition(NameAt(k + 2, n)))>>)),
      \* back to the first state, one handler two states ahead
      DefState(Roster[k], "operation",
               Some(StringTransition(Roster[1])), FALSE, None, None,
               Some(<<Handler("DefaultErrorRef", StringTransition(NameAt(k + 2, n)))>>)),
      \* a switch: two conditions ahead, the default back to itself
      DefState(Roster[k], "switch", None, FALSE,
               Some(<<Condition("big", NameAt(k + 2, n)),
                      Condition("small", NameAt(k + 1, n))>>),
               Some([ transition |-> [ nextState |-> Roster[k] ] ]),
               None) }

\* the first k states of the graphs of n states
RECURSIVE GraphPrefixes(_, _)
GraphPrefixes(k, n) ==
    IF k = 0 THEN { <<>> }
    ELSE { Append(q, s) : q \in GraphPrefixes(k - 1, n), s \in Shapes(k, n) }

GraphStates(n) == GraphPrefixes(n, n)

LayoutDefinitions ==
    { Definition(start, q) :
        start \in {"A", "Z"}, q \in UNION { GraphStates(n) : n \in 1..MaxGraph } }

-----------------------------------------------------------------------------
(* The pipeline                                                            *)

\* FileSelector and App as constructed, before the effect of the first render
InitSelector ==
    /\ mode = "combined"
    /\ isLoading = FALSE
    /\ selectorError = <<>>
    /\ selectedWorkflow = ""
    /\ selectedExecution = ""
    /\ requests = <<>>
    /\ workflowData = None
    /\ currentFile = <<>>
    /\ combineCalls = <<>>
    /\ onDataLoadCalls = <<>>

InitRest ==
    /\ combinedData = None
    /\ visited = {}
    /\ statePositions = <<>>
    /\ callStack = <<>>
    /\ positionSets = <<>>
    /\ layoutStatesCalls = 0
    /\ nodes = <<>>
    /\ edges = <<>>
    /\ triggeredHandlers = <<>>
    /\ pc = "loaded"
    /\ legacyNodes = <<>>
    /\ legacyEdges = <<>>
    /\ firstResults = {}
    /\ InitSelector

InitMerge ==
    /\ definition \in MergeDefinitions
    /\ execution \in MergeTraces
    /\ InitRest

InitResolver ==
    /\ definition \in ResolverDefinitions
    /\ execution \in ResolverTraces
    /\ InitRest

InitLayout ==
    /\ definition \in LayoutDefinitions
    /\ execution = None
    /\ InitRest

InitSwitch ==
    /\ definition \in SwitchDefinitions
    /\ execution \in SwitchTraces
    /\ InitRest

\* combineWorkflowData(definition, execution)
Combine ==
    /\ pc = "loaded"
    /\ combinedData' = Some(combineWorkflowData(definition, execution))
    /\ pc' = "combined"
    /\ UNCHANGED <<definition, execution, visited, statePositions, callStack,
                   positionSets, layoutStatesCalls, nodes, edges,
                   triggeredHandlers>>
    /\ UNCHANGED <<legacyVars, firstResults, selectorVars>>

\* a variant whose visited set outlives the call
ParseBegin_KeepingVisited ==
    /\ pc = "combined"
    /\ statePositions' = <<>>
    /\ positionSets' = <<>>
    /\ layoutStatesCalls' = 0
    /\ callStack' = <<Frame(Val(combinedData).startState, 0, 0)>>
    /\ pc' = "layout"
    /\ UNCHANGED <<definition, execution, combinedData, visited, nodes, edges,
                   triggeredHandlers>>
    /\ UNCHANGED <<legacyVars, firstResults, selectorVars>>

\* parseCombinedWorkflowData up to the first call of layoutStates: a new
\* statePositions map and a new visited set
ParseBegin ==
    /\ pc = "combined"
    /\ visited' = {}
    /\ statePositions' = <<>>
    /\ positionSets' = <<>>
    /\ layoutStatesCalls' = 0
    /\ callStack' = <<Frame(Val(combinedData).startState, 0, 0)>>
    /\ pc' = "layout"
    /\ UNCHANGED <<definition, execution, combinedData, nodes, edges,
                   triggeredHandlers>>
    /\ UNCHANGED <<legacyVars, firstResults, selectorVars>>

\* one invocation of layoutStates that returns at its guard
LayoutStatesReturn ==
    /\ pc = "layout"
    /\ callStack # <<>>
    /\ LayoutSkips(Head(callStack).stateName, visited,
                   stateMapOf(Val(combinedData)))
    /\ callStack' = Tail(callStack)
    /\ layoutStatesCalls' = layoutStatesCalls + 1
    /\ UNCHANGED <<definition, execution, combinedData, visited, statePositions,
                   positionSets, nodes, edges, triggeredHandlers, pc>>
    /\ UNCHANGED <<legacyVars, firstResults, selectorVars>>

\* one invocation of layoutStates that positions its state; the calls it
\* makes run next, in order, before the caller's remaining calls
LayoutStatesVisit ==
    /\ pc = "layout"
    /\ callStack # <<>>
    /\ LET call     == Head(callStack)
           stateMap == stateMapOf(Val(combinedData))
       IN  /\ ~LayoutSkips(call.stateName, visited, stateMap)
           /\ visited' = visited \cup {call.stateName}
           /\ statePositions' =
                 MapSet(statePositions, call.stateName,
                        LayoutPosition(call.level, call.position))
           /\ positionSets' =
                 MapSet(positionSets, call.stateName,
                        IF call.stateName \in DOMAIN positionSets
                        THEN positionSets[call.stateName] + 1 ELSE 1)
           /\ callStack' =
                 LayoutCalls(stateMap[call.stateName], call.level, call.position)
                    \o Tail(callStack)
    /\ layoutStatesCalls' = layoutStatesCalls + 1
    /\ UNCHANGED <<definition, execution, combinedData, nodes, edges,
                   triggeredHandlers, pc>>
    /\ UNCHANGED <<legacyVars, firstResults, selectorVars>>

\* the rest of parseCombinedWorkflowData: the nodes, then the edges
ParseFinish ==
    /\ pc = "layout"
    /\ callStack = <<>>
    /\ nodes' = CreateNodes(Val(combinedData), statePositions)
    /\ edges' = CreateEdges(Val(combinedData).states, 1)
    /\ triggeredHandlers' = TriggeredHandlers(Val(combinedData).states)
    /\ pc' = "done"
    /\ UNCHANGED <<definition, execution, combinedData, visited, statePositions,
                   callStack, positionSets, layoutStatesCalls>>
    /\ UNCHANGED <<legacyVars, firstResults, selectorVars>>

\* the older parseCombinedWorkflowData on the same combined data
ParseLegacy ==
    /\ pc = "done"
    /\ LET result == LegacyParseCombinedWorkflowData(Val(combinedData))
       IN  /\ legacyNodes' = result.nodes
           /\ legacyEdges' = result.edges
    /\ pc' = "compared"
    /\ UNCHANGED <<definition, execution, combinedData, visited, statePositions,
                   callStack, positionSets, layoutStatesCalls, nodes, edges,
                   triggeredHandlers>>
    /\ UNCHANGED <<firstResults, selectorVars>>

Next ==
    \/ Combine
    \/ ParseBegin
    \/ LayoutStatesReturn
    \/ LayoutStatesVisit
    \/ ParseFinish

SpecMerge == InitMerge /\ [][Next]_vars

SpecResolver == InitResolver /\ [][Next]_vars

SpecLayout == InitLayout /\ [][Next]_vars

SpecSwitch == InitSwitch /\ [][Next]_vars

\* both variants of the parser on the switch inputs
NextVariants == Next \/ ParseLegacy

SpecVariants == InitSwitch /\ [][NextVariants]_vars

SpecLayoutFair == InitLayout /\ [][Next]_vars /\ WF_vars(Next)

-----------------------------------------------------------------------------
(* FileSelector: the load requests and their asynchronous completions.     *)
(* A request is one call of loadCombinedWorkflow, loadWorkflowOnly,        *)
(* loadDebugOnly or handleFileUpload; its loads are the loadFile promises  *)
(* (for an upload, the FileReader) it waits for.                           *)

MaxRequests == 2    \* load requests started in one session

\* two of the WORKFLOW_DEFINITIONS
WORKFLOW_DEFINITIONS == { "email_workflow.json", "loan_workflow.json" }

\* their DEBUG_EXECUTIONS
DEBUG_EXECUTIONS ==
    { "email_workflow_standard_debug.json",
      "loan_workflow_low_risk_application_debug.json" }

\* their SUGGESTED_COMBINATIONS, one execution each
SUGGESTED_COMBINATIONS ==
    << [ workflow |-> "email_workflow.json",
         executions |-> <<"email_workflow_standard_debug.json">> ],
       [ workflow |-> "loan_workflow.json",
         executions |-> <<"loan_workflow_low_risk_application_debug.json">> ] >>

\* what response.json() yields for a file of /examples: a definition for a
\* workflow file, a trace for a debug file
ExampleContent(filename) ==
    CASE filename = "email_workflow.json" ->
            Definition("A",
                << DefState("A", "operation", Some(ObjectTransition("B")), FALSE,
                            None, None,
                            Some(<<Handler("io", StringTransition("C"))>>)),
                   EndState("B"), EndState("C") >>)
      [] filename = "loan_workflow.json" ->
            Definition("A",
                << DefState("A", "switch", None, FALSE,
                            Some(<<Condition("big", "B")>>),
                            Some([ transition |-> [ nextState |-> "C" ] ]), None),
                   EndState("B"), EndState("C") >>)
      [] filename = "email_workflow_standard_debug.json" ->
            [ states |-> << ExecutionRecord("A", T1, T2, Some("IO net"), None, None),
                            ExecutionRecord("C", T2, T3, None, None, None) >> ]
      [] filename = "loan_workflow_low_risk_application_debug.json" ->
            [ states |-> << ExecutionRecord("A", T1, T2, None, None, Some("big")),
                            ExecutionRecord("B", T2, T3, None, None, None) >> ]

\* the files a user uploads, by what JSON.parse and the format test make of them
UploadFiles ==
    { [ name |-> "upload_definition.json", format |-> "definition" ],
      [ name |-> "upload_debug.json", format |-> "debug" ],
      [ name |-> "upload_other.json", format |-> "unrecognized" ] }

UploadContent(format) ==
    IF format = "definition"
    THEN ExampleContent("loan_workflow.json")
    ELSE ExampleContent("loan_workflow_low_risk_application_debug.json")

\* why a loadFile promise rejects: the response is not ok, or response.json()
\* fails
LoadFailures(filename) ==
    { <<"Failed to load ", filename>>, <<"Unexpected token">> }

Load(filename) ==
    [ filename |-> filename, status |-> "pending", reason |-> <<>> ]

Request(kind, filenames, format) ==
    [ kind    |-> kind,
      loads   |-> [i \in DOMAIN filenames |-> Load(filenames[i])],
      format  |-> format,
      order   |-> <<>>,     \* history: the loads in the order they completed
      settled |-> FALSE ]

\* Promise.all is fulfilled once every promise is
PromiseAllFulfilled_Any(loads) ==
    \E i \in DOMAIN loads : loads[i].status = "resolved"

PromiseAllFulfilled(loads) ==
    \A i \in DOMAIN loads : loads[i].status = "resolved"

\* Promise.all is rejected as soon as one promise is
PromiseAllRejected(loads) ==
    \E i \in DOMAIN loads : loads[i].status = "rejected"

\* the reason of the promise that rejected first
FirstRejection(request) ==
    LET Rejected(i) == request.loads[i].status = "rejected"
    IN  request.loads[Head(SelectSeq(request.order, Rejected))].reason

\* setIsLoading(true); setError(''); and the promises of the request
StartRequest(kind, filenames) ==
    /\ Len(requests) < MaxRequests
    /\ isLoading' = TRUE
    /\ selectorError' = <<>>
    /\ requests' = Append(requests, Request(kind, filenames, "example"))
    /\ UNCHANGED <<mode, selectedWorkflow, selectedExecution, workflowData,
                   currentFile, combineCalls, onDataLoadCalls>>

\* what the steps of FileSelector leave alone
idleVars == <<pipelineVars, firstResults>>

\* the data handed to onDataLoad: combined data or a bare trace
CombinedPayload(cd) == [ combined |-> Some(cd), debug |-> None ]

DebugPayload(trace) == [ combined |-> None, debug |-> Some(trace) ]

\* onDataLoad(data, filename), which is handleDataLoad of App
OnDataLoad(r, data, filename) ==
    /\ onDataLoadCalls' =
          Append(onDataLoadCalls,
                 [ request |-> r, data |-> data, filename |-> filename ])
    /\ workflowData' = Some(data)
    /\ currentFile' = filename

Settled(r) == [requests EXCEPT ![r].settled = TRUE]

\* the call of combineWorkflowData by request r, with its loads as they are
CombineCall(r) ==
    [ request |-> r,
      loads |-> [i \in DOMAIN requests[r].loads |-> requests[r].loads[i].status] ]

\* useEffect(() => loadCombinedWorkflow(first.workflow, first.executions[0]), [])
Mount ==
    /\ requests = <<>>
    /\ StartRequest("combined",
                    << SUGGESTED_COMBINATIONS[1].workflow,
                       SUGGESTED_COMBINATIONS[1].executions[1] >>)
    /\ UNCHANGED idleVars

\* setMode of the two mode buttons
SetMode ==
    /\ requests # <<>>
    /\ \E m \in { "combined", "debug-only" } : m # mode /\ mode' = m
    /\ UNCHANGED <<isLoading, selectorError, selectedWorkflow, selectedExecution,
                   requests, workflowData, currentFile, combineCalls,
                   onDataLoadCalls>>
    /\ UNCHANGED idleVars

\* onClick of an execution button: loadCombinedWorkflow up to its await
LoadCombinedWorkflow ==
    /\ requests # <<>>
    /\ mode = "combined"
    /\ ~isLoading
    /\ \E c \in DOMAIN SUGGESTED_COMBINATIONS :
          \E e \in DOMAIN SUGGESTED_COMBINATIONS[c].executions :
             StartRequest("combined",
                          << SUGGESTED_COMBINATIONS[c].workflow,
                             SUGGESTED_COMBINATIONS[c].executions[e] >>)
    /\ UNCHANGED idleVars

\* onClick of a workflow button: loadWorkflowOnly up to its await
LoadWorkflowOnly ==
    /\ requests # <<>>
    /\ mode = "combined"
    /\ ~isLoading
    /\ \E filename \in WORKFLOW_DEFINITIONS :
          StartRequest("workflow-only", <<filename>>)
    /\ UNCHANGED idleVars

\* onClick of a debug button: loadDebugOnly up to its await
LoadDebugOnly ==
    /\ requests # <<>>
    /\ mode = "debug-only"
    /\ ~isLoading
    /\ \E filename \in DEBUG_EXECUTIONS :
          StartRequest("debug-only", <<filename>>)
    /\ UNCHANGED idleVars

\* handleFileUpload: reader.readAsText(file)
HandleFileUpload ==
    /\ requests # <<>>
    /\ Len(requests) < MaxRequests
    /\ \E file \in UploadFiles :
          requests' = Append(requests, Request("upload", <<file.name>>, file.format))
    /\ UNCHANGED <<mode, isLoading, selectorError, selectedWorkflow,
                   selectedExecution, workflowData, currentFile, combineCalls,
                   onDataLoadCalls>>
    /\ UNCHANGED idleVars

\* a loadFile promise is fulfilled with the parsed JSON
LoadFileResolves ==
    /\ \E r \in DOMAIN requests :
          /\ requests[r].kind # "upload"
          /\ \E i \in DOMAIN requests[r].loads :
                /\ requests[r].loads[i].status = "pending"
                /\ requests' = [requests EXCEPT
                                   ![r].loads[i].status = "resolved",
                                   ![r].order = Append(@, i)]
    /\ UNCHANGED <<mode, isLoading, selectorError, selectedWorkflow,
                   selectedExecution, workflowData, currentFile, combineCalls,
                   onDataLoadCalls>>
    /\ UNCHANGED idleVars

\* a loadFile promise is rejected
LoadFileRejects ==
    /\ \E r \in DOMAIN requests :
          /\ requests[r].kind # "upload"
          /\ \E i \in DOMAIN requests[r].loads :
                /\ requests[r].loads[i].status = "pending"
                /\ \E reason \in LoadFailures(requests[r].loads[i].filename) :
                      requests' = [requests EXCEPT
                                      ![r].loads[i].status = "rejected",
                                      ![r].loads[i].reason = reason,
                                      ![r].order = Append(@, i)]
    /\ UNCHANGED <<mode, isLoading, selectorError, selectedWorkflow,
                   selectedExecution, workflowData, currentFile, combineCalls,
                   onDataLoadCalls>>
    /\ UNCHANGED idleVars

\* loadCombinedWorkflow past await Promise.all([...]): try, catch, finally
LoadCombinedWorkflowResumes ==
    /\ \E r \in DOMAIN requests :
          LET request == requests[r]
              workflowFile  == request.loads[1].filename
              executionFile == request.loads[2].filename
          IN  /\ request.kind = "combined"
              /\ ~request.settled
              /\ PromiseAllFulfilled(request.loads) \/ PromiseAllRejected(request.loads)
              /\ IF PromiseAllFulfilled(request.loads)
                 THEN /\ combineCalls' = Append(combineCalls, CombineCall(r))
                      /\ OnDataLoad(r,
                            CombinedPayload(
                                combineWorkflowData(ExampleContent(workflowFile),
                                                    Some(ExampleContent(executionFile)))),
                            <<workflowFile, " + ", executionFile>>)
                      /\ selectedWorkflow' = workflowFile
                      /\ selectedExecution' = executionFile
                      /\ UNCHANGED selectorError
                 ELSE /\ selectorError' =
                            <<"Error loading files: ">> \o FirstRejection(request)
                      /\ UNCHANGED <<combineCalls, onDataLoadCalls, workflowData,
                                     currentFile, selectedWorkflow,
                                     selectedExecution>>
              /\ isLoading' = FALSE
              /\ requests' = Settled(r)
    /\ UNCHANGED mode
    /\ UNCHANGED idleVars

\* loadWorkflowOnly past await loadFile(workflowFile)
LoadWorkflowOnlyResumes ==
    /\ \E r \in DOMAIN requests :
          LET request == requests[r]
              workflowFile == request.loads[1].filename
          IN  /\ request.kind = "workflow-only"
              /\ ~request.settled
              /\ request.loads[1].status # "pending"
              /\ IF request.loads[1].status = "resolved"
                 THEN /\ combineCalls' = Append(combineCalls, CombineCall(r))
                      /\ OnDataLoad(r,
                            CombinedPayload(
                                combineWorkflowData(ExampleContent(workflowFile), None)),
                            <<workflowFile>>)
                      /\ selectedWorkflow' = workflowFile
                      /\ selectedExecution' = ""
                      /\ UNCHANGED selectorError
                 ELSE /\ selectorError' =
                            <<"Error loading workflow: ">> \o request.loads[1].reason
                      /\ UNCHANGED <<combineCalls, onDataLoadCalls, workflowData,
                                     currentFile, selectedWorkflow,
                                     selectedExecution>>
              /\ isLoading' = FALSE
              /\ requests' = Settled(r)
    /\ UNCHANGED mode
    /\ UNCHANGED idleVars

\* loadDebugOnly past await loadFile(debugFile)
LoadDebugOnlyResumes ==
    /\ \E r \in DOMAIN requests :
          LET request == requests[r]
              debugFile == request.loads[1].filename
          IN  /\ request.kind = "debug-only"
              /\ ~request.settled
              /\ request.loads[1].status # "pending"
              /\ IF request.loads[1].status = "resolved"
                 THEN /\ OnDataLoad(r, DebugPayload(ExampleContent(debugFile)),
                                    <<debugFile>>)
                      /\ selectedWorkflow' = ""
                      /\ selectedExecution' = debugFile
                      /\ UNCHANGED selectorError
                 ELSE /\ selectorError' =
                            <<"Error loading debug file: ">> \o request.loads[1].reason
                      /\ UNCHANGED <<onDataLoadCalls, workflowData, currentFile,
                                     selectedWorkflow, selectedExecution>>
              /\ isLoading' = FALSE
              /\ requests' = Settled(r)
    /\ UNCHANGED <<mode, combineCalls>>
    /\ UNCHANGED idleVars

\* reader.onload of handleFileUpload
ReaderOnload ==
    /\ \E r \in DOMAIN requests :
          LET request == requests[r]
              fileName == request.loads[1].filename
              data == UploadContent(request.format)
          IN  /\ request.kind = "upload"
              /\ ~request.settled
              /\ IF request.format = "definition"
                 THEN /\ combineCalls' = Append(combineCalls, CombineCall(r))
                      /\ OnDataLoad(r, CombinedPayload(combineWorkflowData(data, None)),
                                    <<fileName>>)
                 ELSE IF request.format = "debug"
                 THEN /\ OnDataLoad(r, DebugPayload(data), <<fileName>>)
                      /\ UNCHANGED combineCalls
                 ELSE UNCHANGED <<combineCalls, onDataLoadCalls, workflowData,
                                  currentFile>>
              /\ IF request.format = "unrecognized"
                 THEN /\ selectorError' = <<"Invalid JSON file or unrecognized format">>
                      /\ UNCHANGED <<selectedWorkflow, selectedExecution>>
                 ELSE /\ selectedWorkflow' = fileName
                      /\ selectedExecution' = ""
                      /\ selectorError' = <<>>
              /\ requests' = [requests EXCEPT ![r].settled = TRUE,
                                              ![r].loads[1].status = "resolved",
                                              ![r].order = <<1>>]
    /\ UNCHANGED <<mode, isLoading>>
    /\ UNCHANGED idleVars

NextSelector ==
    \/ Mount
    \/ SetMode
    \/ LoadCombinedWorkflow
    \/ LoadWorkflowOnly
    \/ LoadDebugOnly
    \/ HandleFileUpload
    \/ LoadFileResolves
    \/ LoadFileRejects
    \/ LoadCombinedWorkflowResumes
    \/ LoadWorkflowOnlyResumes
    \/ LoadDebugOnlyResumes
    \/ ReaderOnload

\* nothing is displayed yet: the merge and the parser have not run
InitSelectorOnly ==
    /\ definition = ExampleContent("email_workflow.json")
    /\ execution = None
    /\ InitRest

SpecSelector == InitSelectorOnly /\ [][NextSelector]_vars

-----------------------------------------------------------------------------
(* Repeated runs of the merge and the parser, once per file load           *)

\* the inputs a session loads one after the other

ReloadInputs ==
    { [ definition |-> ExampleContent("email_workflow.json"),
        execution  |-> Some(ExampleContent("email_workflow_standard_debug.json")) ],
      [ definition |-> ExampleContent("loan_workflow.json"),
        execution  |-> Some(ExampleContent(
                              "loan_workflow_low_risk_application_debug.json")) ],
      \* a cycle A -> B -> A with a handler to C, no trace
      [ definition |->
            Definition("A",
                << DefState("A", "operation", Some(ObjectTransition("B")), FALSE,
                            None, None,
                            Some(<<Handler("io", ObjectTransition("C"))>>)),
                   DefState("B", "operation", Some(StringTransition("A")), FALSE,
                            None, None, None),
                   EndState("C") >>),
        execution  |-> None ] }

InitReload ==
    /\ \E input \in ReloadInputs :
          /\ definition = input.definition
          /\ execution = input.execution
    /\ InitRest

\* the first result recorded for the input of the run that is over, if any
RecordedFor(def, exec) ==
    { f \in firstResults : f.definition = def /\ f.execution = exec }

\* a new file is loaded after the previous one was displayed: the merge and
\* the parser run again, on whatever the previous run left behind
Reload ==
    /\ pc = "done"
    /\ firstResults' =
          IF RecordedFor(definition, execution) # {}
          THEN firstResults
          ELSE firstResults \cup
                  { [ definition |-> definition, execution |-> execution,
                      combinedData |-> combinedData, nodes |-> nodes,
                      edges |-> edges ] }
    /\ \E input \in ReloadInputs :
          /\ definition' = input.definition
          /\ execution' = input.execution
    /\ pc' = "loaded"
    /\ UNCHANGED <<combinedData, visited, statePositions, callStack,
                   positionSets, layoutStatesCalls, nodes, edges,
                   triggeredHandlers>>
    /\ UNCHANGED <<legacyVars, selectorVars>>

NextReload == Next \/ Reload

SpecReload == InitReload /\ [][NextReload]_vars

-----------------------------------------------------------------------------
(* Properties of the merge                                                 *)

\* the unified states, once combineWorkflowData has returned
Unified == IF IsDefined(combinedData) THEN Val(combinedData).states ELSE <<>>

\* the names the trace records
TraceNames ==
    IF IsDefined(execution)
    THEN { Val(execution).states[i].name : i \in DOMAIN Val(execution).states }
    ELSE {}

\* C1: combineWorkflowData returns exactly one unified state per definition
\* state, in definition order, the i-th carrying the name, type and
\* definition of the i-th definition state.
C1_OnePerDefinitionState ==
    IsDefined(combinedData) =>
        /\ Len(Unified) = Len(definition.states)
        /\ \A i \in DOMAIN Unified :
              /\ Unified[i].name = definition.states[i].name
              /\ Unified[i].type = definition.states[i].type
              /\ Unified[i].definition = definition.states[i]

\* a merge of two states with a trace that names one of them and a state
\* the definition does not declare
C1_Witness ==
    /\ IsDefined(combinedData)
    /\ Len(definition.states) = 2
    /\ TraceNames = {"B", "Z"}
    /\ Len(Unified) = 2

\* C2: wasExecuted is true iff the trace has a record of the state's name
\* (never, without a trace), and an unexecuted state has duration 0.
C2_ExecutedIffRecorded ==
    \A i \in DOMAIN Unified :
        /\ Unified[i].wasExecuted <=> (Unified[i].name \in TraceNames)
        /\ ~Unified[i].wasExecuted => Unified[i].duration = 0

\* one state ran for 250 ms, the other did not run
C2_Witness ==
    /\ Len(Unified) = 2
    /\ Unified[1].wasExecuted /\ Unified[1].duration = 250
    /\ ~Unified[2].wasExecuted /\ Unified[2].duration = 0
    /\ "Z" \in TraceNames

\* an error message is set when it is present and not the empty string
ErrorSet(o) == o # None /\ o # Some("")

\* C3: hasError is true iff the state was executed and its record's error is
\* set or one of its actions' errors is set; never for an unexecuted state.
C3_HasErrorIffRecordedError ==
    \A i \in DOMAIN Unified :
        Unified[i].hasError <=>
            /\ Unified[i].wasExecuted
            /\ LET rec == Val(Unified[i].execution)
               IN  \/ ErrorSet(rec.error)
                   \/ /\ rec.actions # None
                      /\ \E k \in DOMAIN Val(rec.actions) :
                            ErrorSet(Val(rec.actions)[k].error)

\* a state whose only error is the error of one of its actions, beside an
\* executed state without error and trace records of an undeclared state
C3_Witness ==
    /\ Len(Unified) = 2
    /\ Unified[1].hasError
    /\ Val(Unified[1].execution).error = None
    /\ Unified[2].wasExecuted /\ ~Unified[2].hasError

-----------------------------------------------------------------------------
(* Properties of the error-handler resolution                              *)

\* ref occurs in msg as a substring, letter case ignored
SubstringIgnoringCase(ref, msg) ==
    LET r == Chars(ref)
        m == Chars(msg)
    IN  \E off \in 0..(Len(m) - Len(r)) :
            \A j \in 1..Len(r) : LowerChar(m[off + j]) = LowerChar(r[j])

\* the states whose error handler the edge loop has resolved, with an
\* effective error message
Errored ==
    { i \in DOMAIN triggeredHandlers :
        /\ Unified[i].definition.type # "switch"
        /\ Unified[i].hasError
        /\ IsDefined(Unified[i].definition.onErrors)
        /\ Truthy(EffectiveErrorMessage(Val(Unified[i].execution))) }

DeclaredHandlers(i) == Val(Unified[i].definition.onErrors)

Message(i) == Val(EffectiveErrorMessage(Val(Unified[i].execution)))

\* the declared non-default handlers whose errorRef is a substring of the message
SubstringMatches(i) ==
    { k \in DOMAIN DeclaredHandlers(i) :
        /\ DeclaredHandlers(i)[k].errorRef # "DefaultErrorRef"
        /\ SubstringIgnoringCase(DeclaredHandlers(i)[k].errorRef, Message(i)) }

\* the same, among the handlers with a non-empty errorRef
NonEmptyMatches(i) ==
    { k \in SubstringMatches(i) : DeclaredHandlers(i)[k].errorRef # "" }

Earliest(S) == CHOOSE k \in S : \A j \in S : k <= j

ResolvedTo(i, k) ==
    triggeredHandlers[i] =
        Some([ errorHandler |-> DeclaredHandlers(i)[k],
               nextState    |-> DeclaredHandlers(i)[k].transition.nextState ])

\* C4 (as stated): when several declared non-default handlers have an errorRef
\* that is a case-insensitive substring of the effective error message, the
\* one declared earliest is returned.
C4_EarliestSubstringMatch ==
    \A i \in Errored :
        Cardinality(SubstringMatches(i)) >= 2 =>
            ResolvedTo(i, Earliest(SubstringMatches(i)))

\* C4 (amended): when several declared non-default handlers have a non-empty
\* errorRef that is a case-insensitive substring of the effective error
\* message, the one declared earliest among them is returned.
C4_EarliestNonEmptyMatch ==
    \A i \in Errored :
        Cardinality(NonEmptyMatches(i)) >= 2 =>
            ResolvedTo(i, Earliest(NonEmptyMatches(i)))

\* two matching handlers in one order; the inputs hold the other order too
C4_Witness ==
    /\ Errored # {}
    /\ \E i \in Errored :
          /\ Len(DeclaredHandlers(i)) = 2
          /\ DeclaredHandlers(i)[1].errorRef = "Net"
          /\ DeclaredHandlers(i)[2].errorRef = "io"
          /\ NonEmptyMatches(i) = {1, 2}
          /\ ResolvedTo(i, 1)

ResolvedToDefault(i) ==
    /\ IsDefined(triggeredHandlers[i])
    /\ Val(triggeredHandlers[i]).errorHandler.errorRef = "DefaultErrorRef"

DeclaresDefault(i) ==
    \E k \in DOMAIN DeclaredHandlers(i) :
        DeclaredHandlers(i)[k].errorRef = "DefaultErrorRef"

\* C5 (as stated): resolution yields a DefaultErrorRef handler only if no
\* non-default handler substring-matches the effective error message, wherever
\* the DefaultErrorRef handler is declared; with no match and no
\* DefaultErrorRef handler the result is null.
C5_DefaultOnlyWithoutSubstringMatch ==
    \A i \in Errored :
        /\ ResolvedToDefault(i) => SubstringMatches(i) = {}
        /\ (SubstringMatches(i) = {} /\ ~DeclaresDefault(i))
              => triggeredHandlers[i] = None

\* C5 (amended): resolution yields a DefaultErrorRef handler only if no
\* non-default handler with a non-empty errorRef substring-matches the
\* effective error message, wherever the DefaultErrorRef handler is declared;
\* with no such match and no DefaultErrorRef handler the result is null.
C5_DefaultOnlyWithoutNonEmptyMatch ==
    \A i \in Errored :
        /\ ResolvedToDefault(i) => NonEmptyMatches(i) = {}
        /\ (NonEmptyMatches(i) = {} /\ ~DeclaresDefault(i))
              => triggeredHandlers[i] = None

\* a matching specific handler declared after the DefaultErrorRef handler wins
C5_Witness ==
    \E i \in Errored :
        /\ Len(DeclaredHandlers(i)) = 2
        /\ DeclaredHandlers(i)[1].errorRef = "DefaultErrorRef"
        /\ NonEmptyMatches(i) = {2}
        /\ ResolvedTo(i, 2)

-----------------------------------------------------------------------------
(* Properties of the layout                                                *)

Declared == { definition.states[i].name : i \in DOMAIN definition.states }

\* C6: the layout traversal started at startState terminates for every finite
\* definition graph (cycles, self-loops and diamonds included), and it assigns
\* a position to each state name at most once.
C6_TerminatesPositioningOnce ==
    /\ <>(pc = "done")
    /\ [][\A n \in DOMAIN positionSets' : positionSets'[n] <= 1]_vars

\* the traversal is over on a graph with a diamond (A -> B -> C, A -> C), a
\* cycle (C -> A) and a self-loop (D -> D), each state positioned once
C6_Witness ==
    /\ pc = "done"
    /\ Len(definition.states) = 4
    /\ getNextStateName(definition.states[1]) = Some("B")
    /\ getErrorHandlerNextState(Val(definition.states[1].onErrors)[1]) = "C"
    /\ getNextStateName(definition.states[2]) = Some("C")
    /\ getErrorHandlerNextState(Val(definition.states[2].onErrors)[1]) = "D"
    /\ getNextStateName(definition.states[3]) = Some("A")
    /\ definition.states[4].type = "switch"
    /\ Val(definition.states[4].defaultCondition).transition.nextState = "D"
    /\ visited = {"A", "B", "C", "D"}
    /\ \A n \in visited : positionSets[n] = 1

\* C7: parseCombinedWorkflowData emits exactly one node per unified state, with
\* id state-<name> and one position, whether or not the state is reachable
\* from start and whether or not the graph has cycles.
C7_OneNodePerState ==
    pc = "done" =>
        /\ Len(nodes) = Len(Unified)
        /\ \A i \in DOMAIN Unified :
              /\ nodes[i].id = <<"state-", Unified[i].name>>
              /\ DOMAIN nodes[i].position = {"x", "y"}
              /\ Cardinality({ k \in DOMAIN nodes :
                                 nodes[k].id = <<"state-", Unified[i].name>> }) = 1

\* three nodes for a graph whose first state loops to itself and whose second
\* state is unreachable
C7_Witness ==
    /\ pc = "done"
    /\ Len(Unified) = 3
    /\ getNextStateName(definition.states[1]) = Some("A")
    /\ visited = {"A", "C"}
    /\ Len(nodes) = 3
    /\ nodes[2].position = [ x |-> 400, y |-> 0 ]

\* C8: no two distinct states reachable from the start state are assigned the
\* same (x, y) position by the layout.
C8_ReachablePositionsDistinct ==
    \A a, b \in DOMAIN statePositions :
        a # b => statePositions[a] # statePositions[b]

\* C9: if start names no declared state, the layout call fails instead of
\* returning nodes and edges.
C9_MissingStartFails ==
    definition.start \notin Declared => pc # "done"

-----------------------------------------------------------------------------
(* Properties of the edges                                                 *)

EdgesFrom(name) == { k \in DOMAIN edges : edges[k].source = <<"state-", name>> }

DeclaredHandlerCount(defState) ==
    IF IsDefined(defState.onErrors) THEN Len(Val(defState.onErrors)) ELSE 0

\* C10: a non-switch state with h declared error handlers is the source of
\* (1 if it has a normal transition, else 0) + h edges, for every trace.
C10_RegularEdgeCount ==
    pc = "done" =>
        \A i \in DOMAIN Unified :
            Unified[i].definition.type # "switch" =>
                Cardinality(EdgesFrom(Unified[i].name)) =
                    (IF IsDefined(getNextStateName(Unified[i].definition))
                     THEN 1 ELSE 0)
                    + DeclaredHandlerCount(Unified[i].definition)

-----------------------------------------------------------------------------
(* Properties of the switch edges                                          *)

\* the declared dataConditions of a definition state
DeclaredConditions(defState) ==
    IF IsDefined(defState.dataConditions) THEN Val(defState.dataConditions) ELSE <<>>

\* the unified switch states, once the edges are there
Switches ==
    IF pc = "done"
    THEN { i \in DOMAIN Unified : Unified[i].definition.type = "switch" }
    ELSE {}

\* the trace's marker of the condition a state matched, if it is recorded
MatchedCondition(i) ==
    IF IsDefined(Unified[i].execution)
    THEN Val(Unified[i].execution).matchedCondition ELSE None

\* how an edge is drawn: the triggered error edge is red, an executed path is
\* animated, every other edge is a gray dashed alternative
Classification(e) ==
    IF e.stroke = "#ef4444" THEN "error-triggered"
    ELSE IF e.animated /\ e.stroke # "#d1d5db" /\ e.strokeDasharray = None
         THEN "executed"
    ELSE IF ~e.animated /\ e.stroke = "#d1d5db" /\ e.strokeDasharray = Some("5,5")
         THEN IF IsDefined(e.label) /\ Head(Val(e.label)) = "error: "
              THEN "error-untriggered" ELSE "unexecuted-alternative"
    ELSE "unclassified"

\* C11: a switch state with k dataConditions and a declared defaultCondition is
\* the source of exactly k + 1 edges, whatever the trace records.
C11_SwitchEdgeCount ==
    \A i \in Switches :
        IsDefined(Unified[i].definition.defaultCondition) =>
            Cardinality(EdgesFrom(Unified[i].name)) =
                Len(DeclaredConditions(Unified[i].definition)) + 1

\* an executed switch with two conditions of which the trace matched the
\* second, and a default: three edges
C11_Witness ==
    /\ 1 \in Switches
    /\ Len(DeclaredConditions(Unified[1].definition)) = MaxConditions
    /\ IsDefined(Unified[1].definition.defaultCondition)
    /\ Unified[1].wasExecuted
    /\ MatchedCondition(1) = Some(DeclaredConditions(Unified[1].definition)[2].name)
    /\ Cardinality(EdgesFrom(Unified[1].name)) = MaxConditions + 1

\* the edges of the dataCondition c of the switch i: the edges are emitted
\* state by state, a switch's conditions first and in declared order
ConditionEdgeAt(i, j) ==
    CHOOSE k \in EdgesFrom(Unified[i].name) :
        Cardinality({ m \in EdgesFrom(Unified[i].name) : m < k }) = j - 1

\* C12: the edge of a dataCondition c of a switch state is classified executed
\* iff the state was executed and the trace's matchedCondition equals c.name;
\* otherwise it is an unexecuted alternative.
C12_ConditionEdgeExecuted ==
    \A i \in Switches :
        \A j \in DOMAIN DeclaredConditions(Unified[i].definition) :
            LET c == DeclaredConditions(Unified[i].definition)[j]
                e == edges[ConditionEdgeAt(i, j)]
            IN  /\ e.label = Some(<<c.name>>)
                /\ e.target = StateId(c.transition.nextState)
                /\ Classification(e) =
                      IF Unified[i].wasExecuted /\ MatchedCondition(i) = Some(c.name)
                      THEN "executed" ELSE "unexecuted-alternative"

\* an executed switch whose trace matched the first of two conditions: that
\* edge is executed, the other one is an alternative
C12_Witness ==
    /\ 1 \in Switches
    /\ Len(DeclaredConditions(Unified[1].definition)) = 2
    /\ Unified[1].wasExecuted
    /\ DeclaredConditions(Unified[1].definition)[2].name # 
          DeclaredConditions(Unified[1].definition)[1].name
    /\ MatchedCondition(1) = Some(DeclaredConditions(Unified[1].definition)[1].name)
    /\ Classification(edges[ConditionEdgeAt(1, 1)]) = "executed"
    /\ Classification(edges[ConditionEdgeAt(1, 2)]) = "unexecuted-alternative"

\* the default edge of a switch is the last edge it emits
DefaultEdgeAt(i) ==
    CHOOSE k \in EdgesFrom(Unified[i].name) :
        \A m \in EdgesFrom(Unified[i].name) : m <= k

\* C13: the default edge of a switch state with a declared defaultCondition is
\* classified executed iff the state was executed and matchedCondition is
\* absent or the literal "default"; otherwise it is an unexecuted alternative.
C13_DefaultEdgeExecuted ==
    \A i \in Switches :
        IsDefined(Unified[i].definition.defaultCondition) =>
            Classification(edges[DefaultEdgeAt(i)]) =
                IF /\ Unified[i].wasExecuted
                   /\ MatchedCondition(i) \in { None, Some("default") }
                THEN "executed" ELSE "unexecuted-alternative"

-----------------------------------------------------------------------------
(* Properties of the edges of the other states                             *)

NonSwitches ==
    IF pc = "done"
    THEN { i \in DOMAIN Unified : Unified[i].definition.type # "switch" }
    ELSE {}

\* a definition state has a normal transition when it declares one and is not
\* an end state
HasNormalTransition(defState) == IsDefined(defState.transition) /\ ~defState.end

\* the edges of a state that carry no label: only the normal transition's does
UnlabelledEdgesFrom(name) == { k \in EdgesFrom(name) : edges[k].label = None }

\* C14: a non-switch state with a normal transition emits one edge for it, to
\* the transition's target, classified executed iff the state was executed and
\* has no error (an unexecuted alternative otherwise); a state with end = true
\* or without a transition emits no normal-transition edge.
C14_NormalEdgeExecuted ==
    \A i \in NonSwitches :
        LET normal == UnlabelledEdgesFrom(Unified[i].name)
        IN  IF HasNormalTransition(Unified[i].definition)
            THEN /\ Cardinality(normal) = 1
                 /\ \A k \in normal :
                       /\ edges[k].target =
                             StateId(Val(Unified[i].definition.transition).nextState)
                       /\ Classification(edges[k]) =
                             IF Unified[i].wasExecuted /\ ~Unified[i].hasError
                             THEN "executed" ELSE "unexecuted-alternative"
            ELSE normal = {}

\* the first state ran into an error and has a normal transition, drawn as
\* an alternative; the end states emit no edge
C14_Witness ==
    /\ NonSwitches = {1, 2, 3}
    /\ HasNormalTransition(Unified[1].definition)
    /\ Unified[1].wasExecuted /\ Unified[1].hasError
    /\ \E k \in UnlabelledEdgesFrom(Unified[1].name) :
          Classification(edges[k]) = "unexecuted-alternative"
    /\ EdgesFrom(Unified[2].name) = {}

EdgesOfClass(name, class) ==
    { k \in EdgesFrom(name) : Classification(edges[k]) = class }

\* C15: a non-switch state with declared error handlers emits, if a handler
\* resolved, one error-triggered edge to the resolved handler's target and one
\* error-untriggered edge for every other declared handler; if none resolved,
\* one error-untriggered edge per declared handler.
C15_ErrorEdgesPerHandler ==
    \A i \in NonSwitches :
        LET h == DeclaredHandlerCount(Unified[i].definition)
            triggered == EdgesOfClass(Unified[i].name, "error-triggered")
            untriggered == EdgesOfClass(Unified[i].name, "error-untriggered")
        IN  h > 0 =>
              IF IsDefined(triggeredHandlers[i])
              THEN /\ Cardinality(triggered) = 1
                   /\ \A k \in triggered :
                         edges[k].target = StateId(Val(triggeredHandlers[i]).nextState)
                   /\ Cardinality(untriggered) = h - 1
              ELSE /\ triggered = {}
                   /\ Cardinality(untriggered) = h

\* C16: the edges emitted by one parseCombinedWorkflowData call have pairwise
\* distinct ids (ids made of equal parts are equal strings).
C16_EdgeIdsDistinct ==
    pc = "done" =>
        \A j, k \in DOMAIN edges : j # k => edges[j].id # edges[k].id

-----------------------------------------------------------------------------
(* Properties of the merge of a trace with repeated names                  *)

\* the records of the trace, in trace order
Trace == IF IsDefined(execution) THEN Val(execution).states ELSE <<>>

RecordsOf(name) == { k \in DOMAIN Trace : Trace[k].name = name }

LastRecordOf(name) ==
    Trace[CHOOSE k \in RecordsOf(name) : \A m \in RecordsOf(name) : m <= k]

\* C17: when the trace has two or more records of a state's name, the unified
\* state carries the last of them as its execution, and hasError and duration
\* are those of that last record.
C17_LastRecordWins ==
    \A i \in DOMAIN Unified :
        Cardinality(RecordsOf(Unified[i].name)) >= 2 =>
            LET last == LastRecordOf(Unified[i].name)
            IN  /\ Unified[i].execution = Some(last)
                /\ Unified[i].hasError <=>
                      \/ ErrorSet(last.error)
                      \/ /\ last.actions # None
                         /\ \E k \in DOMAIN Val(last.actions) :
                               ErrorSet(Val(last.actions)[k].error)
                /\ Unified[i].duration =
                      IF last.startTime # "" /\ last.endTime # ""
                      THEN DateGetTime(last.endTime) - DateGetTime(last.startTime)
                      ELSE 0

\* a state recorded twice: first with an error after 900 ms, last without
\* error after 250 ms
C17_Witness ==
    /\ Unified # <<>>
    /\ Len(Trace) = 2
    /\ Trace[1].name = Unified[1].name /\ Trace[2].name = Unified[1].name
    /\ ErrorSet(Trace[1].error)
    /\ DateGetTime(Trace[1].endTime) - DateGetTime(Trace[1].startTime) = 900
    /\ ~Unified[1].hasError
    /\ Unified[1].duration = 250

-----------------------------------------------------------------------------
(* Properties of the two variants of the parser                            *)

\* the executed switch states with a default, once both variants have run
ComparedSwitches ==
    IF pc = "compared"
    THEN { i \in DOMAIN Unified :
             /\ Unified[i].definition.type = "switch"
             /\ IsDefined(Unified[i].definition.defaultCondition)
             /\ Unified[i].wasExecuted }
    ELSE {}

LegacyEdgesFrom(name) ==
    { k \in DOMAIN legacyEdges : legacyEdges[k].source = <<"state-", name>> }

\* the default edge the older variant emits for a switch: its last edge
LegacyDefaultEdgeAt(i) ==
    CHOOSE k \in LegacyEdgesFrom(Unified[i].name) :
        \A m \in LegacyEdgesFrom(Unified[i].name) : m <= k

\* does the variant with the test === 'default' draw the default edge as executed
LiteralVariantExecuted(i) ==
    Classification(edges[DefaultEdgeAt(i)]) = "executed"

\* does the variant with the test !matchedCondition draw it as executed
AbsentVariantExecuted(i) ==
    Classification(legacyEdges[LegacyDefaultEdgeAt(i)]) = "executed"

-----------------------------------------------------------------------------
(* Properties of FileSelector                                              *)

\* the requests made by loadCombinedWorkflow
CombinedRequests == { r \in DOMAIN requests : requests[r].kind = "combined" }

\* the calls a request made, among the calls recorded
CallsOf(calls, r) == { k \in DOMAIN calls : calls[k].request = r }

\* one of the two loads of the request failed
SomeLoadFailed(r) ==
    \E i \in DOMAIN requests[r].loads : requests[r].loads[i].status = "rejected"

\* C19: loadCombinedWorkflow calls combineWorkflowData only when both the
\* definition load and the trace load have resolved, in whichever order they
\* complete; when either load fails, the request calls neither
\* combineWorkflowData nor onDataLoad, and its continuation sets an error
\* message.
C19_JoinBeforeMerge ==
    /\ [](\A k \in DOMAIN combineCalls :
             combineCalls[k].request \in CombinedRequests =>
                 combineCalls[k].loads = <<"resolved", "resolved">>)
    /\ [](\A r \in CombinedRequests :
             SomeLoadFailed(r) =>
                 /\ CallsOf(combineCalls, r) = {}
                 /\ CallsOf(onDataLoadCalls, r) = {})
    /\ [][\A r \in CombinedRequests :
             ~requests[r].settled /\ requests'[r].settled /\ SomeLoadFailed(r) =>
                 selectorError' # <<>>]_vars

\* the first request failed on one load and called nothing; the second one
\* got its trace before its definition and merged after both
C19_Witness ==
    /\ Len(requests) = 2
    /\ CombinedRequests = {1, 2}
    /\ requests[1].settled /\ SomeLoadFailed(1)
    /\ CallsOf(combineCalls, 1) = {} /\ CallsOf(onDataLoadCalls, 1) = {}
    /\ requests[2].settled /\ requests[2].order = <<2, 1>>
    /\ CallsOf(combineCalls, 2) # {} /\ CallsOf(onDataLoadCalls, 2) # {}

-----------------------------------------------------------------------------
(* Properties of repeated runs                                             *)

\* C20: two runs of combineWorkflowData and parseCombinedWorkflowData on equal
\* inputs return equal combined data, nodes (positions included) and edges,
\* whatever ran before and in between: nothing of a run survives it.
C20_EqualInputsEqualResults ==
    pc = "done" =>
        \A f \in RecordedFor(definition, execution) :
            /\ f.combinedData = combinedData
            /\ f.nodes = nodes
            /\ f.edges = edges

\* a later run on the cyclic definition, after runs on the two other inputs,
\* with the visited set of the run filled again
C20_Witness ==
    /\ pc = "done"
    /\ Cardinality(firstResults) = Cardinality(ReloadInputs)
    /\ execution = None
    /\ RecordedFor(definition, execution) # {}
    /\ visited = {"A", "B", "C"}
    /\ \A f \in RecordedFor(definition, execution) : f.nodes = nodes

-----------------------------------------------------------------------------
(* Properties of a run without error                                       *)

\* the trace records every declared state, and no record or action of it
\* carries an error
CleanFullTrace ==
    /\ \A i \in DOMAIN definition.states :
          RecordsOf(definition.states[i].name) # {}
    /\ \A k \in DOMAIN Trace :
          /\ ~ErrorSet(Trace[k].error)
          /\ Trace[k].actions # None =>
                \A a \in DOMAIN Val(Trace[k].actions) :
                    ~ErrorSet(Val(Trace[k].actions)[a].error)

\* the edges of a state that belong to an error handler
HandlerEdgesFrom(name) ==
    { k \in EdgesFrom(name) :
        IsDefined(edges[k].label) /\ Head(Val(edges[k].label)) = "error: " }

\* C21: when the trace records every definition state and no state or action
\* error, every normal-transition edge is classified executed, no edge is
\* error-triggered and every error-handler edge is error-untriggered.
C21_CleanRunEdges ==
    CleanFullTrace =>
        /\ \A k \in DOMAIN edges : Classification(edges[k]) # "error-triggered"
        /\ \A i \in NonSwitches :
              /\ \A k \in UnlabelledEdgesFrom(Unified[i].name) :
                    Classification(edges[k]) = "executed"
              /\ \A k \in HandlerEdgesFrom(Unified[i].name) :
                    Classification(edges[k]) = "error-untriggered"

\* all three states ran without error: the normal edge of the first is
\* executed, and its two handlers, a DefaultErrorRef one among them, are not
\* triggered
C21_Witness ==
    /\ NonSwitches = {1, 2, 3}
    /\ CleanFullTrace
    /\ Cardinality(UnlabelledEdgesFrom(Unified[1].name)) = 1
    /\ Cardinality(HandlerEdgesFrom(Unified[1].name)) = 2
    /\ \E k \in DOMAIN DeclaredHandlers(1) :
          DeclaredHandlers(1)[k].errorRef = "DefaultErrorRef"
    /\ \A k \in EdgesFrom(Unified[1].name) :
          Classification(edges[k]) \in { "executed", "error-untriggered" }

-----------------------------------------------------------------------------
(* Properties of the layout, continued                                     *)

\* the targets a definition state declares, in fan-out order: for a switch
\* its dataConditions and then its defaultCondition, for any other state its
\* normal transition and then its onErrors
FanOut(defState) ==
    IF defState.type = "switch"
    THEN [j \in DOMAIN DeclaredConditions(defState) |->
             DeclaredConditions(defState)[j].transition.nextState]
         \o (IF IsDefined(defState.defaultCondition)
             THEN <<Val(defState.defaultCondition).transition.nextState>>
             ELSE <<>>)
    ELSE (IF HasNormalTransition(defState)
          THEN <<Val(defState.transition).nextState>> ELSE <<>>)
         \o (IF IsDefined(defState.onErrors)
             THEN [j \in DOMAIN Val(defState.onErrors) |->
                     Val(defState.onErrors)[j].transition.nextState]
             ELSE <<>>)

DeclaredState(name) ==
    definition.states[CHOOSE i \in DOMAIN definition.states :
                          definition.states[i].name = name]

\* the declared states one transition away from a state of S
Successors(S) ==
    { t \in Declared :
        \E n \in S : \E j \in DOMAIN FanOut(DeclaredState(n)) :
            FanOut(DeclaredState(n))[j] = t }

RECURSIVE Closure(_)
Closure(S) == IF Successors(S) \subseteq S THEN S ELSE Closure(S \cup Successors(S))

\* the declared states reachable from the start state
Reachable == Closure({ definition.start } \cap Declared)

\* C22: a unified state that cannot be reached from start gets the fallback
\* position (index * 400, 0), index being its place in merge order from 0,
\* and is a node all the same.
C22_UnreachedFallback ==
    pc = "done" =>
        \A i \in DOMAIN Unified :
            Unified[i].name \notin Reachable =>
                /\ i \in DOMAIN nodes
                /\ nodes[i].id = <<"state-", Unified[i].name>>
                /\ nodes[i].position = [ x |-> (i - 1) * 400, y |-> 0 ]

\* the start state leads to the next two states only: the fourth and the
\* fifth are nodes at (1200, 0) and (1600, 0)
C22_Witness ==
    /\ pc = "done"
    /\ Len(Unified) = 5
    /\ Reachable = {"A", "B", "C"}
    /\ nodes[2].position = [ x |-> 400, y |-> 0 ]
    /\ nodes[4].position = [ x |-> 1200, y |-> 0 ]
    /\ nodes[5].position = [ x |-> 1600, y |-> 0 ]

\* a step of the traversal that visits a state for the first time
FirstVisit == pc = "layout" /\ callStack # <<>> /\ visited' # visited

\* the invocations of layoutStates a state visited at (level, position)
\* makes: one per target in fan-out order, the i-th (from 0) in lane
\* position + i
ChildCalls(defState, level, position) ==
    [j \in DOMAIN FanOut(defState) |->
        [ stateName |-> FanOut(defState)[j],
          level     |-> level + 1,
          position  |-> position + (j - 1) ]]

\* C23: a state first visited at level L and lane p is positioned at
\* (400 L, 250 p), once and for all and before any of its children is visited,
\* and its i-th child in fan-out order, from 0, is called with level L + 1 and
\* lane p + i, whether or not that child was visited before.
C23_LanesInFanOutOrder ==
    [][/\ FirstVisit =>
            LET call == Head(callStack)
            IN  /\ visited' = visited \cup {call.stateName}
                /\ statePositions'[call.stateName] =
                      [ x |-> 400 * call.level, y |-> 250 * call.position ]
                /\ callStack' =
                      ChildCalls(DeclaredState(call.stateName), call.level,
                                 call.position) \o Tail(callStack)
       /\ pc = "layout" =>
            \A n \in DOMAIN statePositions :
                n \in DOMAIN statePositions'
                    /\ statePositions'[n] = statePositions[n]]_vars

\* B, visited at level 1 and lane 0, has called its normal target A, visited
\* before, in lane 0 and its handler target D in lane 1; C waits in lane 1 of
\* level 1
C23_Witness ==
    /\ pc = "layout"
    /\ visited = {"A", "B"}
    /\ statePositions["B"] = [ x |-> 400, y |-> 0 ]
    /\ callStack = << Frame("A", 2, 0), Frame("D", 2, 1), Frame("C", 1, 1) >>

\* the handlers a definition state declares
HandlersOf(defState) ==
    IF IsDefined(defState.onErrors) THEN Val(defState.onErrors) ELSE <<>>

\* C24 as stated: a state with end = true, or with no transition and no
\* handlers, is positioned by the traversal and makes no recursive call.
C24_EndStateIsLeaf ==
    [][FirstVisit =>
          LET call == Head(callStack)
              defState == DeclaredState(call.stateName)
          IN  (defState.end
                 \/ (~IsDefined(defState.transition)
                        /\ HandlersOf(defState) = <<>>)) =>
                  /\ call.stateName \in DOMAIN statePositions'
                  /\ callStack' = Tail(callStack)]_vars

\* C24: a state other than a switch that declares no handlers and has
\* end = true or no transition is positioned and makes no recursive call; a
\* state other than a switch with end = true that declares handlers is
\* positioned and makes one recursive call per handler, and none for its
\* transition.
C24_LeafWithoutHandlers ==
    [][FirstVisit =>
          LET call == Head(callStack)
              defState == DeclaredState(call.stateName)
              handlers == HandlersOf(defState)
          IN  (defState.type # "switch"
                 /\ (defState.end \/ ~IsDefined(defState.transition))) =>
                  /\ call.stateName \in DOMAIN statePositions'
                  /\ Len(callStack') = Len(handlers) + Len(callStack) - 1
                  /\ \A j \in DOMAIN handlers :
                        callStack'[j].stateName = handlers[j].transition.nextState
                  /\ handlers = <<>> => callStack' = Tail(callStack)]_vars

\* A, with end = true, a transition to B and no handlers, was visited and
\* left nothing to visit
C24_Witness ==
    /\ pc = "layout"
    /\ visited = {"A"}
    /\ DeclaredState("A").end
    /\ IsDefined(DeclaredState("A").transition)
    /\ HandlersOf(DeclaredState("A")) = <<>>
    /\ statePositions["A"] = [ x |-> 0, y |-> 0 ]
    /\ callStack = <<>>

\* the transitions a definition state declares: conditions, default, normal
\* transition and error handlers
TransitionsOf(defState) ==
    Len(DeclaredConditions(defState))
        + (IF IsDefined(defState.defaultCondition) THEN 1 ELSE 0)
        + (IF IsDefined(defState.transition) THEN 1 ELSE 0)
        + Len(HandlersOf(defState))

RECURSIVE SumTransitions(_, _)
SumTransitions(states, i) ==
    IF i > Len(states) THEN 0
    ELSE TransitionsOf(states[i]) + SumTransitions(states, i + 1)

DeclaredTransitions == SumTransitions(definition.states, 1)

\* C25: in one layout call the body of layoutStates past the guard runs at
\* most once per declared state and never for another name, and the number of
\* invocations of layoutStates, those still to run included, is at most
\* 1 + the number of declared transitions, cycles or not.
C25_LinearTraversal ==
    /\ \A n \in DOMAIN positionSets : n \in Declared /\ positionSets[n] <= 1
    /\ layoutStatesCalls + Len(callStack) <= 1 + DeclaredTransitions

\* a cyclic graph of five states laid out with the bound met: every declared
\* transition was followed once
C25_Witness ==
    /\ pc = "done"
    /\ Len(definition.states) = 5
    /\ \E j \in DOMAIN FanOut(DeclaredState("B")) :
          FanOut(DeclaredState("B"))[j] = "A"
    /\ "B" \in visited
    /\ layoutStatesCalls = 1 + DeclaredTransitions
    /\ layoutStatesCalls > Cardinality(visited) + 2

\* the unified states for which the edge loop resolves a handler from an
\* error: executed, with an error, not a switch, with declared handlers
ErroredWithHandlers ==
    { i \in DOMAIN triggeredHandlers :
        /\ Unified[i].definition.type # "switch"
        /\ Unified[i].hasError
        /\ IsDefined(Unified[i].execution)
        /\ IsDefined(Unified[i].definition.onErrors) }

\* the message by the rule of C26: the state-level error when the record
\* sets one, else the error of the first action that sets one
RuleMessage(rec) ==
    IF IsDefined(rec.error) THEN Val(rec.error)
    ELSE LET actions == Val(rec.actions)
             withError == { k \in DOMAIN actions : IsDefined(actions[k].error) }
         IN  Val(actions[Earliest(withError)].error)

\* the handlers of state i that a message selects: those with a non-empty,
\* non-default errorRef occurring in it
SelectedBy(i, msg) ==
    { k \in DOMAIN DeclaredHandlers(i) :
        /\ DeclaredHandlers(i)[k].errorRef \notin { "", "DefaultErrorRef" }
        /\ SubstringIgnoringCase(DeclaredHandlers(i)[k].errorRef, msg) }

DefaultsOf(i) ==
    { k \in DOMAIN DeclaredHandlers(i) :
        DeclaredHandlers(i)[k].errorRef = "DefaultErrorRef" }

\* C26: the handler resolved for an errored state is the one selected by the
\* state-level error when the record sets one, whatever errors its actions
\* carry, and otherwise by the error of the first action, in actions order,
\* that sets one.
C26_StateErrorBeforeActionErrors ==
    \A i \in ErroredWithHandlers :
        LET msg == RuleMessage(Val(Unified[i].execution))
        IN  IF SelectedBy(i, msg) # {}
            THEN ResolvedTo(i, Earliest(SelectedBy(i, msg)))
            ELSE IF DefaultsOf(i) # {}
                 THEN ResolvedTo(i, Earliest(DefaultsOf(i)))
                 ELSE triggeredHandlers[i] = None

\* the state-level error "disk" selects no handler although the first action
\* error, "net", would select the declared one
C26_Witness ==
    \E i \in ErroredWithHandlers :
        /\ Val(Unified[i].execution).error = Some("disk")
        /\ IsDefined(Val(Unified[i].execution).actions)
        /\ Len(DeclaredHandlers(i)) = 1
        /\ SelectedBy(i, "net") = {1}
        /\ triggeredHandlers[i] = None

\* without a state-level error the first action error, "net", selects
C26_WitnessActions ==
    \E i \in ErroredWithHandlers :
        /\ Val(Unified[i].execution).error = None
        /\ SelectedBy(i, "net") = {1}
        /\ SelectedBy(i, "disk") = {}
        /\ ResolvedTo(i, 1)

\* the declared states one emitted edge away from a state of S
EdgeSuccessors(S) ==
    { t \in Declared :
        \E k \in DOMAIN edges :
            /\ edges[k].target = <<"state-", t>>
            /\ \E n \in S : edges[k].source = <<"state-", n>> }

RECURSIVE EdgeClosure(_)
EdgeClosure(S) ==
    IF EdgeSuccessors(S) \subseteq S THEN S
    ELSE EdgeClosure(S \cup EdgeSuccessors(S))

\* the declared states reachable from the start state along emitted edges
EdgeReachable == EdgeClosure({ definition.start } \cap Declared)

\* C27: the states positioned by the layout traversal are the declared states
\* reachable from the start state along the emitted edges.
C27_LayoutFollowsEdges ==
    pc = "done" => DOMAIN statePositions = EdgeReachable

\* the same where the handlers of each state have pairwise distinct errorRefs
C27_DistinctRefsLayoutFollowsEdges ==
    (/\ pc = "done"
     /\ \A i \in DOMAIN definition.states :
           \A j, k \in DOMAIN HandlersOf(definition.states[i]) :
               HandlersOf(definition.states[i])[j].errorRef =
                   HandlersOf(definition.states[i])[k].errorRef => j = k)
        => DOMAIN statePositions = EdgeReachable

\* C28: at most one error-triggered edge leaves a merged state, one leaves
\* only a state that was executed and has an error, and no state is the source
\* of both an executed normal-transition edge and an error-triggered edge.
C28_OneTriggeredEdgeOnErrorOnly ==
    pc = "done" =>
        \A i \in DOMAIN Unified :
            LET triggered == EdgesOfClass(Unified[i].name, "error-triggered")
                normal == { k \in UnlabelledEdgesFrom(Unified[i].name) :
                              Classification(edges[k]) = "executed" }
            IN  /\ Cardinality(triggered) <= 1
                /\ triggered # {} => Unified[i].wasExecuted /\ Unified[i].hasError
                /\ normal = {} \/ triggered = {}

\* an errored state with a normal transition and two handlers: one
\* error-triggered edge, and the normal edge is not an executed one
C28_Witness ==
    /\ pc = "done"
    /\ \E i \in DOMAIN Unified :
          /\ Unified[i].hasError
          /\ Len(HandlersOf(Unified[i].definition)) = 2
          /\ Cardinality(EdgesOfClass(Unified[i].name, "error-triggered")) = 1
          /\ \E k \in UnlabelledEdgesFrom(Unified[i].name) :
                Classification(edges[k]) = "unexecuted-alternative"

\* C29: a state other than a switch that has an error and declares a
\* DefaultErrorRef handler always has a handler resolved, and is the source of
\* exactly one error-triggered edge.
C29_DefaultHandlerAlwaysResolves ==
    \A i \in NonSwitches :
        (Unified[i].hasError
           /\ \E k \in DOMAIN HandlersOf(Unified[i].definition) :
                 HandlersOf(Unified[i].definition)[k].errorRef = "DefaultErrorRef")
        => /\ IsDefined(triggeredHandlers[i])
           /\ Cardinality(EdgesOfClass(Unified[i].name, "error-triggered")) = 1

\* the error "disk" matches no specific handler and the DefaultErrorRef
\* handler, declared second, resolves
C29_Witness ==
    \E i \in NonSwitches :
        /\ Unified[i].hasError
        /\ Val(Unified[i].execution).error = Some("disk")
        /\ Len(HandlersOf(Unified[i].definition)) = 2
        /\ HandlersOf(Unified[i].definition)[1].errorRef = "io"
        /\ HandlersOf(Unified[i].definition)[2].errorRef = "DefaultErrorRef"
        /\ ResolvedTo(i, 2)
        /\ Cardinality(EdgesOfClass(Unified[i].name, "error-triggered")) = 1

\* C30: requests are numbered in the order they are initiated; a request never
\* delivers data through onDataLoad after a request initiated later has
\* delivered, so the data last delivered is never that of an overtaken request.
C30_NewestRequestWins ==
    \A a, b \in DOMAIN onDataLoadCalls :
        a < b => onDataLoadCalls[a].request <= onDataLoadCalls[b].request

====
